---- MODULE Spec2Model ----
(***************************************************************************)
(* Job orchestration of gweizero.                                          *)
(*                                                                         *)
(*  - the orchestrator's AnalysisJobService (job registry, dedupe map,     *)
(*    progress emitter), the pipeline AnalysisService.processContract      *)
(*    drives through it, and the SSE stream handler streamAnalyzeJob;      *)
(*  - the worker's JobStoreService (in-memory map, abort controllers,      *)
(*    write chain) over JobPersistenceService (the analysis_jobs table).   *)
(*                                                                         *)
(* Every action is one macro-task of the Node event loop: a request        *)
(* handler or the continuation of an awaited remote call, run up to its    *)
(* next real suspension point.                                             *)
(* Fields the code writes and never reads (createdAt, event timestamps)    *)
(* are left out; an event carries its position in the job's event list.    *)
(***************************************************************************)
EXTENDS Integers, Sequences, FiniteSets, TLC

\* ------------------------------------------------------------------ bounds
MaxJobs == 2
MaxTime == 2
MaxStreams == 2
DedupeTtl == 1
MaxCancels == 1
MaxWorkerJobs == 2
MaxQueue == 2
MaxLoads == 2
MaxRestarts == 1
MaxPolls == 2
MaxProfiled == 2
MaxProofRequests == 1
MaxChildren == 2

\* ------------------------------------------------- configuration defaults
MaxOptimizerCycles == 2
MaxAcceptanceAttempts == 3
ProviderRetries == 2

VARIABLES
  jobs,             \* AnalysisJobService.jobs
  codeHashToJobId,  \* AnalysisJobService.codeHashToJobId
  task,             \* suspended runJob continuation of each job
  streams,          \* open SSE responses and their emitter subscription
  now,              \* Date.now()
  providers,        \* whether getProviders() is non-empty (environment)
  reply             \* the response written by the request handled last

ovars == <<jobs, codeHashToJobId, task, streams, now, providers, reply>>

VARIABLES
  wjobs,        \* JobStoreService.jobs
  controllers,  \* JobStoreService.controllers (ids holding an AbortController)
  aborted,      \* ids whose abort signal has fired
  initialized,  \* JobStoreService.initialized
  writeQueue,   \* upserts chained on JobStoreService.writeChain, not yet run
  writeChain,   \* "resolved", or the error the chain was rejected with
  wtask,        \* position of each job's processJob promise
  loads,        \* loadJobs calls in flight, each with the handler awaiting it
  store,        \* the analysis_jobs table
  issued,       \* job ids handed out so far (randomUUID never repeats)
  restarts,     \* restarts of the worker process so far
  cancelAsked   \* ids whose cancellation cancelJob has accepted so far

wvars == <<wjobs, controllers, aborted, initialized, writeQueue, writeChain,
           wtask, loads, store, issued, restarts, cancelAsked>>

VARIABLES
  baselineIn,   \* validateOptimizedCandidate: the baseline profile it is given
  optimizedIn,  \* validateOptimizedCandidate: the candidate profile it is given
  validation    \* validateOptimizedCandidate: what it returned

fvars == <<baselineIn, optimizedIn, validation>>

VARIABLES
  profiling,        \* position of each getGasProfile call of the worker
  signalAborted,    \* calls whose AbortSignal has fired
  sourceFiles,      \* calls whose TempContract_<jobId>.sol exists in contracts/
  artifactFolders,  \* calls whose artifacts/contracts/<sourceFile> folder exists
  child             \* the process spawned by execHardhat for each call

hvars == <<profiling, signalAborted, sourceFiles, artifactFolders, child>>

VARIABLES
  client,  \* position of each HardhatService.getGasProfile call
  remote   \* the worker's job for each call, as GET /jobs/:id reports it

cvars == <<client, remote>>

VARIABLES
  proofJob,    \* the job record the proof endpoints find
  proofReply,  \* the response of the proof endpoint called last
  submitted    \* the payloads sent to the registry's mintProof so far

pvars == <<proofJob, proofReply, submitted>>

VARIABLES
  fallback  \* position of the callWithFallback call, with its attempts so far

avars == <<fallback>>

VARIABLES
  optimizer  \* position and locals of the getOptimizations call

gvars == <<optimizer>>

VARIABLES
  acceptance  \* position and locals of the generateAcceptedOptimization call

lvars == <<acceptance>>

VARIABLES
  runner  \* the execHardhat calls: promise, child process, kill timer

rvars == <<runner>>

\* the state of the services that are modelled on their own
xvars == <<cvars, pvars, avars, gvars, lvars, rvars>>

vars == <<ovars, wvars, fvars, hvars, xvars>>

\* ------------------------------------------------------------ orchestrator
JobIds == 1..MaxJobs
PipelineJobIds == {1}
StreamIds == 1..MaxStreams

Terminal == {"completed", "failed", "cancelled"}
NonTerminal == {"queued", "static_analysis", "dynamic_analysis", "ai_optimization"}

Whitespace == {" "}
Sources == {<<"A">>, <<" ", "A", " ">>, <<"B">>}
PipelineSources == {<<"A">>}

RECURSIVE TrimStart(_)
TrimStart(s) ==
  IF s # <<>> /\ Head(s) \in Whitespace THEN TrimStart(Tail(s)) ELSE s

RECURSIVE TrimEnd(_)
TrimEnd(s) ==
  IF s # <<>> /\ s[Len(s)] \in Whitespace THEN TrimEnd(SubSeq(s, 1, Len(s) - 1)) ELSE s

Trim(s) == TrimEnd(TrimStart(s))

\* sha256 is taken as collision free: the digest is a tag over its input
codeHash(code) == <<"sha256", Trim(code)>>

ErrCancelledByUser == "Analysis cancelled by user."
ErrParse == "Failed to parse Solidity code."
ErrWorkerFailed == "Command failed with code 1"
ErrWorkerCancelled == "Job cancelled by user."
WorkerErrors == {ErrWorkerFailed, ErrWorkerCancelled}
ErrWorkerTimeout == "Worker analysis timed out after 180000ms."
NoError == "undefined"
NoResult == [present |-> FALSE]
NoReply == [op |-> "none"]

\* message.toLowerCase().includes('cancel')
isCancelledError(message) == message \in {ErrCancelledByUser, ErrWorkerCancelled}

\* ------------------------------------------------------ acceptance policy
MaxAllowedRegressionPct == 10
MaxAllowedDeploymentRegressionPct == 20

ReasonAbi == "ABI compatibility check failed."
ReasonFunctionRegression == "Mutable-function gas regression exceeded threshold (10%)."
ReasonDeploymentRegression == "Deployment gas regression exceeded secondary threshold (20%)."
ReasonAccepted == "Candidate accepted."
ReasonNeutral == "Candidate accepted (neutral gas result)."

\* JavaScript numbers that are quotients of gas amounts, kept exact as a
\* fraction in lowest terms with a positive denominator
RECURSIVE GCD(_, _)
GCD(a, b) == IF b = 0 THEN a ELSE GCD(b, a % b)

Abs(n) == IF n < 0 THEN -n ELSE n

Frac(n, d) ==
  LET g == GCD(Abs(n), d) IN [num |-> n \div g, den |-> d \div g]

Num(n) == Frac(n, 1)
Minus(a, b) == Frac(a.num * b.den - b.num * a.den, a.den * b.den)
Over(a, b) == Frac(a.num * b.den, a.den * b.num)
Times(a, b) == Frac(a.num * b.num, a.den * b.den)
Less(a, b) == a.num * b.den < b.num * a.den

percentChange(before, after) ==
  IF before.num <= 0 THEN Num(0)
  ELSE Times(Over(Minus(after, before), before), Num(100))

RECURSIVE Sum(_)
Sum(q) == IF q = <<>> THEN 0 ELSE Head(q) + Sum(Tail(q))

\* the measured gas of the nonpayable and payable functions, averaged
averageFunctionGas(functions) ==
  LET numeric == SelectSeq([i \in DOMAIN functions |->
                              IF /\ functions[i].status = "measured"
                                 /\ functions[i].stateMutability \in {"nonpayable", "payable"}
                              THEN functions[i].gasUsed ELSE 0],
                           LAMBDA v : v > 0)
  IN IF Len(numeric) = 0 THEN Num(0) ELSE Frac(Sum(numeric), Len(numeric))

\* the text `${name}(${inputCount}args)@${stateMutability}`, as its three parts
functionSignatures(abi) ==
  {<<abi[i].name, Len(abi[i].inputs), abi[i].stateMutability>> :
     i \in {k \in DOMAIN abi : abi[k].type = "function"}}

isAbiCompatible(baselineAbi, optimizedAbi) ==
  LET baseline == functionSignatures(baselineAbi)
      optimized == functionSignatures(optimizedAbi)
  IN /\ Cardinality(baseline) = Cardinality(optimized)
     /\ \A signature \in baseline : signature \in optimized

\* variant: the deployment threshold is tested before the function threshold
validateDeploymentFirst(baseline, optimized) ==
  LET abiCompatible == isAbiCompatible(baseline.abi, optimized.abi)
      deploymentBefore == Num(baseline.gasProfile.deploymentGas)
      deploymentAfter == Num(optimized.gasProfile.deploymentGas)
      deploymentGasRegressionPct == percentChange(deploymentBefore, deploymentAfter)
      avgBefore == averageFunctionGas(baseline.gasProfile.functions)
      avgAfter == averageFunctionGas(optimized.gasProfile.functions)
      averageMutableFunctionRegressionPct == percentChange(avgBefore, avgAfter)
      improved == Less(deploymentAfter, deploymentBefore) \/ Less(avgAfter, avgBefore)
      checks == [compiled |-> TRUE, abiCompatible |-> abiCompatible,
                 deploymentGasRegressionPct |-> deploymentGasRegressionPct,
                 averageMutableFunctionRegressionPct |-> averageMutableFunctionRegressionPct,
                 improved |-> improved]
  IN IF ~abiCompatible
     THEN [accepted |-> FALSE, reason |-> ReasonAbi, checks |-> checks]
     ELSE IF Less(Num(MaxAllowedDeploymentRegressionPct), deploymentGasRegressionPct)
     THEN [accepted |-> FALSE, reason |-> ReasonDeploymentRegression, checks |-> checks]
     ELSE IF Less(Num(MaxAllowedRegressionPct), averageMutableFunctionRegressionPct)
     THEN [accepted |-> FALSE, reason |-> ReasonFunctionRegression, checks |-> checks]
     ELSE [accepted |-> TRUE,
           reason |-> IF improved THEN ReasonAccepted ELSE ReasonNeutral,
           checks |-> checks]

validateOptimizedCandidate(baseline, optimized) ==
  LET abiCompatible == isAbiCompatible(baseline.abi, optimized.abi)
      deploymentBefore == Num(baseline.gasProfile.deploymentGas)
      deploymentAfter == Num(optimized.gasProfile.deploymentGas)
      deploymentGasRegressionPct == percentChange(deploymentBefore, deploymentAfter)
      avgBefore == averageFunctionGas(baseline.gasProfile.functions)
      avgAfter == averageFunctionGas(optimized.gasProfile.functions)
      averageMutableFunctionRegressionPct == percentChange(avgBefore, avgAfter)
      improved == Less(deploymentAfter, deploymentBefore) \/ Less(avgAfter, avgBefore)
      checks == [compiled |-> TRUE, abiCompatible |-> abiCompatible,
                 deploymentGasRegressionPct |-> deploymentGasRegressionPct,
                 averageMutableFunctionRegressionPct |-> averageMutableFunctionRegressionPct,
                 improved |-> improved]
  IN IF ~abiCompatible
     THEN [accepted |-> FALSE, reason |-> ReasonAbi, checks |-> checks]
     ELSE IF Less(Num(MaxAllowedRegressionPct), averageMutableFunctionRegressionPct)
     THEN [accepted |-> FALSE, reason |-> ReasonFunctionRegression, checks |-> checks]
     ELSE IF Less(Num(MaxAllowedDeploymentRegressionPct), deploymentGasRegressionPct)
     THEN [accepted |-> FALSE, reason |-> ReasonDeploymentRegression, checks |-> checks]
     ELSE [accepted |-> TRUE,
           reason |-> IF improved THEN ReasonAccepted ELSE ReasonNeutral,
           checks |-> checks]

\* the profiles the policy is run on
Param(type, location) == [type |-> type, location |-> location]

Fn(name, inputs, mutability) ==
  [type |-> "function", name |-> name, inputs |-> inputs,
   stateMutability |-> mutability]

StoredEvent == [type |-> "event", name |-> "Stored", inputs |-> <<>>,
                stateMutability |-> ""]

AbiBase ==
  <<Fn("store", <<Param("bytes", "memory")>>, "nonpayable"), Fn("total", <<>>, "view"),
    StoredEvent>>
AbiCalldata ==
  <<Fn("store", <<Param("bytes", "calldata")>>, "nonpayable"), Fn("total", <<>>, "view"),
    StoredEvent>>
AbiAdded ==
  <<Fn("store", <<Param("bytes", "memory")>>, "nonpayable"), Fn("total", <<>>, "view"),
    Fn("reset", <<>>, "nonpayable"), StoredEvent>>
AbiOverload ==
  <<Fn("store", <<Param("bytes", "memory")>>, "nonpayable"), Fn("total", <<>>, "view"),
    Fn("store", <<Param("uint256", "")>>, "nonpayable"), StoredEvent>>
AbiArity ==
  <<Fn("store", <<Param("bytes", "memory"), Param("uint256", "")>>, "nonpayable"),
    Fn("total", <<>>, "view"), StoredEvent>>
AbiRemoved ==
  <<Fn("store", <<Param("bytes", "memory")>>, "nonpayable"), StoredEvent>>
AbiNoEvent ==
  <<Fn("total", <<>>, "view"), Fn("store", <<Param("bytes", "memory")>>, "nonpayable")>>

Abis == {AbiBase, AbiCalldata, AbiAdded, AbiOverload, AbiArity, AbiRemoved, AbiNoEvent}

Measured(gasUsed, mutability) ==
  [status |-> "measured", gasUsed |-> gasUsed, stateMutability |-> mutability]

Unmeasured(mutability) ==
  [status |-> "unmeasured", gasUsed |-> 0, stateMutability |-> mutability]

FunctionTables ==
  {<<>>,
   <<Measured(100, "nonpayable"), Measured(40, "view")>>,
   <<Measured(110, "nonpayable"), Unmeasured("payable")>>,
   <<Measured(111, "payable"), Measured(0, "nonpayable")>>,
   <<Measured(90, "nonpayable"), Measured(100, "payable")>>}

DeploymentGas == {0, 90, 100, 120, 121}

Profiles ==
  {[abi |-> a, gasProfile |-> [deploymentGas |-> d, functions |-> f]] :
     a \in Abis, d \in DeploymentGas, f \in FunctionTables}

NoValidation == [accepted |-> FALSE, reason |-> "none"]

BaselineProfile ==
  [abi |-> AbiBase,
   gasProfile |-> [deploymentGas |-> 100,
                   functions |-> <<Measured(100, "nonpayable"), Measured(40, "view")>>]]

ReasonUnchanged == "AI returned unchanged code."
ReasonNoCandidate == "No candidate passed acceptance after n attempts."
NoProfile == [present |-> FALSE, null |-> TRUE]

\* the worker's result for a source: the measured profile and the bytecode,
\* which is a tag over the source that was compiled
workerResult(code, measured) ==
  [abi |-> measured.abi, gasProfile |-> measured.gasProfile,
   bytecode |-> <<"bytecode", code>>]

\* what the worker measures for the candidates: an improvement, an added
\* function, a deployment regression
CandidateProfiles ==
  {[abi |-> AbiCalldata,
    gasProfile |-> [deploymentGas |-> 90,
                    functions |-> <<Measured(90, "nonpayable"), Measured(100, "payable")>>]],
   [abi |-> AbiAdded,
    gasProfile |-> [deploymentGas |-> 90,
                    functions |-> <<Measured(90, "nonpayable"), Measured(100, "payable")>>]],
   [abi |-> AbiBase,
    gasProfile |-> [deploymentGas |-> 121,
                    functions |-> <<Measured(100, "nonpayable"), Measured(40, "view")>>]]}

\* validateOptimizedCandidate is applied to the pair drawn at the start
Validate ==
  /\ validation = NoValidation
  /\ validation' = validateOptimizedCandidate(baselineIn, optimizedIn)
  /\ UNCHANGED <<baselineIn, optimizedIn>>
  /\ UNCHANGED <<ovars, wvars, hvars, xvars>>

ValidationIdle ==
  /\ baselineIn = BaselineProfile
  /\ optimizedIn = BaselineProfile
  /\ validation = NoValidation

ValidationInit ==
  /\ baselineIn \in Profiles
  /\ optimizedIn \in Profiles
  /\ validation = NoValidation

Codes == {"orig", "c1", "c2"}

NoTask == [pc |-> "none", ctx |-> "main", cycle |-> 0, attempts |-> 0,
           repairs |-> 0, candidate |-> "orig", gen |-> "orig", polls |-> 0]

ErrSubscriber == "subscriber failed"

\* raised: a listener threw out of the emit call made last
World == [jobs |-> jobs, streams |-> streams, raised |-> FALSE]

toPublicJob(job) == [f \in (DOMAIN job) \ {"code"} |-> job[f]]

getJob(js, id) == IF id \in DOMAIN js THEN toPublicJob(js[id]) ELSE NoResult

updateJob(js, id, updates) ==
  IF id \notin DOMAIN js THEN js
  ELSE [js EXCEPT ![id] =
          [f \in DOMAIN js[id] |->
             IF f \in DOMAIN updates THEN updates[f]
             ELSE IF f = "updatedAt" THEN now
             ELSE js[id][f]]]

\* variant: a terminal event closes the stream before its frame is written
streamHandlerClosesFirst(s, js, event) ==
  IF event.phase \in Terminal
  THEN [s EXCEPT !.out = Append(@, [frame |-> "done", status |-> js[s.job].status]),
                 !.state = "ended"]
  ELSE [s EXCEPT !.out = Append(@, [frame |-> "progress", event |-> event])]

\* the listener streamAnalyzeJob registers on the emitter
streamHandler(s, js, event) ==
  LET wrote == Append(s.out, [frame |-> "progress", event |-> event])
  IN IF event.phase \in Terminal
     THEN [s EXCEPT !.out = Append(wrote, [frame |-> "done",
                                            status |-> js[s.job].status]),
                    !.state = "ended"]
     ELSE [s EXCEPT !.out = wrote]

listeners(st, id) == {i \in DOMAIN st : st[i].state = "live" /\ st[i].job = id}

\* the listeners that throw when handed an event of this phase
raising(st, id, phase) == {i \in listeners(st, id) : phase \in st[i].raises}

\* whether a listener throws out of emitter.emit
emitRaises(st, id, phase) == raising(st, id, phase) # {}

\* EventEmitter.emit: the listeners run in the order they were registered, and
\* a listener that throws ends the call before the later ones run
emit(st, js, id, event) ==
  LET bad == raising(st, id, event.phase)
      called == {i \in listeners(st, id) \ bad :
                   \A k \in bad : st[i].reg < st[k].reg}
  IN [i \in DOMAIN st |->
        IF i \in called THEN streamHandler(st[i], js, event) ELSE st[i]]

emitProgress(w, id, phase, message) ==
  IF id \notin DOMAIN w.jobs THEN w
  ELSE LET current == w.jobs[id]
           event == [phase |-> phase, message |-> message,
                     timestamp |-> now, seq |-> Len(current.events) + 1]
           js == [w.jobs EXCEPT ![id] =
                    [current EXCEPT !.events = Append(@, event),
                                    !.updatedAt = now]]
       IN [jobs |-> js, streams |-> emit(w.streams, js, id, event),
           raised |-> emitRaises(w.streams, id, phase)]

\* variant: the cancelled event is emitted without the status update
finishCancelledEmitsOnly(w, id) ==
  emitProgress(w, id, "cancelled", "Analysis cancelled.")

finishCancelled(w, id) ==
  emitProgress([w EXCEPT !.jobs = updateJob(w.jobs, id,
                   [status |-> "cancelled", error |-> ErrCancelledByUser])],
               id, "cancelled", "Analysis cancelled.")

\* the progress callback runJob hands to processContract
onProgress(w, id, phase) ==
  IF id \notin DOMAIN w.jobs THEN [w |-> w, threw |-> FALSE, message |-> NoError]
  ELSE IF w.jobs[id].cancelRequested
  THEN [w |-> w, threw |-> TRUE, message |-> ErrCancelledByUser]
  ELSE LET e == emitProgress([w EXCEPT !.jobs = updateJob(w.jobs, id, [status |-> phase])],
                             id, phase, "progress")
       IN [w |-> [e EXCEPT !.raised = FALSE], threw |-> e.raised,
           message |-> ErrSubscriber]

RECURSIVE onProgressN(_, _, _, _)
onProgressN(w, id, phase, n) ==
  IF n = 0 THEN [w |-> w, threw |-> FALSE, message |-> NoError]
  ELSE LET r == onProgress(w, id, phase)
       IN IF r.threw THEN r ELSE onProgressN(r.w, id, phase, n - 1)

Done(w, tk) == [w |-> w, task |-> [tk EXCEPT !.pc = "done"]]
Await(w, tk, pc) == [w |-> w, task |-> [tk EXCEPT !.pc = pc, !.polls = 0]]

\* variant: the catch block classifies by the error message alone
runJobCatchByMessage(w, id, tk, message) ==
  IF id \notin DOMAIN w.jobs THEN Done(w, tk)
  ELSE IF isCancelledError(message)
  THEN Done(finishCancelled(w, id), tk)
  ELSE Done(emitProgress([w EXCEPT !.jobs = updateJob(w.jobs, id,
                              [status |-> "failed", error |-> message])],
                         id, "failed", message), tk)

\* runJob: the catch block
runJobCatch(w, id, tk, message) ==
  IF id \notin DOMAIN w.jobs THEN Done(w, tk)
  ELSE IF w.jobs[id].cancelRequested \/ isCancelledError(message)
  THEN Done(finishCancelled(w, id), tk)
  ELSE Done(emitProgress([w EXCEPT !.jobs = updateJob(w.jobs, id,
                              [status |-> "failed", error |-> message])],
                         id, "failed", message), tk)

\* runJob: after processContract has returned
runJobReturned(w, id, tk, result) ==
  IF id \notin DOMAIN w.jobs THEN Done(w, tk)
  ELSE LET e == IF w.jobs[id].cancelRequested THEN finishCancelled(w, id)
                ELSE emitProgress([w EXCEPT !.jobs = updateJob(w.jobs, id,
                                      [status |-> "completed", result |-> result,
                                       error |-> NoError])],
                                  id, "completed", "Analysis completed.")
       IN IF e.raised THEN runJobCatch([e EXCEPT !.raised = FALSE], id, tk, ErrSubscriber)
          ELSE Done(e, tk)

\* processContract: after generateAcceptedOptimization has returned
processContractTail(w, id, tk, loop) ==
  LET r == onProgress(w, id, "ai_optimization")
  IN IF r.threw THEN runJobCatch(r.w, id, tk, r.message)
     ELSE runJobReturned(r.w, id, tk,
            [present |-> TRUE, originalContract |-> w.jobs[id].code,
             dynamicProfile |-> workerResult("orig", BaselineProfile),
             optimizedContract |-> loop.code,
             optimizedDynamicProfile |-> loop.profile,
             optimizationValidation |-> loop.validation,
             optimizationAttempts |-> loop.attempts])

NotValidated(reason) ==
  [accepted |-> FALSE, reason |-> reason,
   checks |-> [compiled |-> FALSE, abiCompatible |-> FALSE,
               deploymentGasRegressionPct |-> Num(0),
               averageMutableFunctionRegressionPct |-> Num(0),
               improved |-> FALSE]]

\* generateAcceptedOptimization: what it returns when no candidate passed
Rejected(attempts) ==
  [validation |-> NotValidated(ReasonNoCandidate), code |-> "orig",
   profile |-> NoProfile, attempts |-> attempts]

\* generateAcceptedOptimization: what it returns for an accepted candidate
Accepted(code, profile, verdict, attempts) ==
  [validation |-> verdict, code |-> code, profile |-> profile,
   attempts |-> attempts]

\* variant: the corrected candidate is accepted under the first candidate's
\* source
retryAcceptedAsFirst(tk, profile, verdict) ==
  Accepted(tk.candidate, profile, verdict, tk.attempts)

\* generateAcceptedOptimization: the corrected candidate passed
retryAccepted(tk, profile, verdict) ==
  Accepted(tk.gen, profile, verdict, tk.attempts)

\* generateAcceptedOptimization: head of the acceptance loop
attemptStart(w, id, tk) ==
  IF tk.attempts >= MaxAcceptanceAttempts
  THEN processContractTail(w, id, tk, Rejected(tk.attempts))
  ELSE LET r == onProgress(w, id, "ai_optimization")
       IN IF r.threw THEN runJobCatch(r.w, id, tk, r.message)
          ELSE Await(r.w, [tk EXCEPT !.attempts = @ + 1], "profile")

\* generateAcceptedOptimization: after the first getOptimizations
afterMainOptimization(w, id, tk, code) ==
  IF code = "orig"
  THEN LET r == onProgress(w, id, "ai_optimization")
       IN IF r.threw THEN runJobCatch(r.w, id, tk, r.message)
          ELSE processContractTail(r.w, id, tk,
                 [validation |-> NotValidated(ReasonUnchanged), code |-> code,
                  profile |-> NoProfile, attempts |-> 1])
  ELSE attemptStart(w, id, [tk EXCEPT !.candidate = code, !.attempts = 0])

\* generateAcceptedOptimization: after the corrective getOptimizations
afterCorrectiveOptimization(w, id, tk, code) ==
  IF code # tk.candidate
  THEN LET r == onProgress(w, id, "ai_optimization")
       IN IF r.threw THEN runJobCatch(r.w, id, tk, r.message)
          ELSE Await(r.w, [tk EXCEPT !.gen = code], "retryProfile")
  ELSE attemptStart(w, id, tk)

getOptimizationsReturn(w, id, tk, code) ==
  IF tk.ctx = "main" THEN afterMainOptimization(w, id, tk, code)
  ELSE afterCorrectiveOptimization(w, id, tk, code)

RECURSIVE cycleStart(_, _, _)
\* getOptimizations: head of the cycle loop; a throw inside the try block
\* (the progress callback included) is caught and moves on to the next cycle
cycleStart(w, id, tk) ==
  IF tk.cycle >= MaxOptimizerCycles
  THEN getOptimizationsReturn(w, id, tk, "orig")
  ELSE LET t1 == [tk EXCEPT !.cycle = @ + 1]
           r == onProgressN(w, id, "ai_optimization", 2)
       IN IF r.threw THEN cycleStart(r.w, id, t1)
          ELSE Await(r.w, t1, "draft")

\* getOptimizations: entry
getOptimizations(w, id, tk, ctx) ==
  LET t0 == [tk EXCEPT !.ctx = ctx, !.cycle = 0, !.repairs = 0]
      r == onProgress(w, id, "ai_optimization")
  IN IF r.threw THEN runJobCatch(r.w, id, t0, r.message)
     ELSE IF ~providers THEN getOptimizationsReturn(r.w, id, t0, "orig")
     ELSE cycleStart(r.w, id, t0)

\* variant: the generator is called without a progress message before it
generateStepUnchecked(w, id, tk) == Await(w, tk, "generate")

\* getOptimizations: a cycle that reaches generateOptimizedContract
generateStep(w, id, tk) ==
  LET r == onProgress(w, id, "ai_optimization")
  IN IF r.threw THEN cycleStart(r.w, id, tk) ELSE Await(r.w, tk, "generate")

\* getOptimizations: a draft that failed validateOptimizationDraft
schemaRepairStep(w, id, tk) ==
  LET r == onProgressN(w, id, "ai_optimization", 2)
  IN IF r.threw THEN cycleStart(r.w, id, tk) ELSE Await(r.w, tk, "repairSchema")

\* getOptimizations: a cycle that reports its failure and continues
cycleRejected(w, id, tk) ==
  LET r == onProgress(w, id, "ai_optimization")
  IN cycleStart(r.w, id, tk)

Commit(r, id) ==
  /\ jobs' = r.w.jobs
  /\ streams' = r.w.streams
  /\ task' = [task EXCEPT ![id] = r.task]
  /\ reply' = NoReply
  /\ UNCHANGED <<codeHashToJobId, now, providers>>
  /\ UNCHANGED <<wvars, fvars, hvars, xvars>>

NewJob(id, code) ==
  [id |-> id, code |-> code, status |-> "queued",
   updatedAt |-> now, cancelRequested |-> FALSE, error |-> NoError,
   result |-> NoResult,
   events |-> <<[phase |-> "queued", message |-> "Job queued.", timestamp |-> now,
                 seq |-> 1]>>]

\* variant: processContract starts at dynamic_analysis, without the static
\* analysis stage
runJobStartSkipsStatic(w, id, parseOk) ==
  IF w.jobs[id].cancelRequested THEN Done(finishCancelled(w, id), NoTask)
  ELSE LET r2 == onProgress(w, id, "dynamic_analysis")
       IN IF r2.threw THEN runJobCatch(r2.w, id, NoTask, r2.message)
          ELSE Await(r2.w, NoTask, "baseline")

\* runJob up to its first suspension: processContract emits static_analysis,
\* parses, emits dynamic_analysis and awaits the baseline profile
runJobStart(w, id, parseOk) ==
  IF w.jobs[id].cancelRequested THEN Done(finishCancelled(w, id), NoTask)
  ELSE LET r1 == onProgress(w, id, "static_analysis")
       IN IF r1.threw THEN runJobCatch(r1.w, id, NoTask, r1.message)
          ELSE IF ~parseOk THEN runJobCatch(r1.w, id, NoTask, ErrParse)
          ELSE LET r2 == onProgress(r1.w, id, "dynamic_analysis")
               IN IF r2.threw THEN runJobCatch(r2.w, id, NoTask, r2.message)
                  ELSE Await(r2.w, NoTask, "baseline")

\* variant: only a completed job is reused, a job still running is not
reusableWhenCompleted(existing) ==
  existing.status = "completed" /\ now - existing.updatedAt <= DedupeTtl

\* variant: a completed job is reused whatever its age
reusableAnyAge(existing) ==
  existing.status \notin Terminal \/ existing.status = "completed"

\* createOrReuseJob: the reuse test on the job the fingerprint maps to
reusable(existing) ==
  LET terminal == existing.status \in Terminal
      withinTtl == now - existing.updatedAt <= DedupeTtl
  IN ~terminal \/ (terminal /\ existing.status = "completed" /\ withinTtl)

createOrReuseJob(code, ids, parseOk) ==
  LET h == codeHash(code)
      mapped == h \in DOMAIN codeHashToJobId
      existingJobId == IF mapped THEN codeHashToJobId[h] ELSE 0
      id == Cardinality(DOMAIN jobs) + 1
      reuse == mapped /\ existingJobId \in DOMAIN jobs /\ reusable(jobs[existingJobId])
      js == [i \in DOMAIN jobs \cup {id} |->
               IF i = id THEN NewJob(id, code) ELSE jobs[i]]
      r == runJobStart([World EXCEPT !.jobs = js], id, parseOk)
  IN /\ ~reuse => id \in ids
     /\ jobs' = IF reuse THEN jobs ELSE r.w.jobs
     /\ streams' = IF reuse THEN streams ELSE r.w.streams
     /\ task' = IF reuse THEN task ELSE [task EXCEPT ![id] = r.task]
     /\ codeHashToJobId' =
          IF reuse THEN codeHashToJobId
          ELSE [x \in DOMAIN codeHashToJobId \cup {h} |->
                  IF x = h THEN id ELSE codeHashToJobId[x]]
     /\ reply' = [op |-> "create", code |-> code,
                  id |-> IF reuse THEN existingJobId ELSE id, reused |-> reuse]
     /\ UNCHANGED <<now, providers>>
     /\ UNCHANGED <<wvars, fvars, hvars, xvars>>

cancelRequests(job) ==
  Cardinality({i \in DOMAIN job.events : job.events[i].message = "Cancellation requested."})

cancelJob(id) ==
  /\ id \in DOMAIN jobs
  /\ jobs[id].status \in Terminal \/ cancelRequests(jobs[id]) < MaxCancels
  /\ IF jobs[id].status \in Terminal
     THEN UNCHANGED <<jobs, streams>>
     ELSE LET w == emitProgress([World EXCEPT !.jobs =
                                   updateJob(jobs, id, [cancelRequested |-> TRUE])],
                                id, jobs[id].status, "Cancellation requested.")
          IN jobs' = w.jobs /\ streams' = w.streams
  /\ reply' = [op |-> "cancel", id |-> id,
               status |-> IF jobs[id].status \notin Terminal
                             /\ emitRaises(streams, id, jobs[id].status)
                          THEN "no reply" ELSE jobs'[id].status]
  /\ UNCHANGED <<codeHashToJobId, task, now, providers>>
  /\ UNCHANGED <<wvars, fvars, hvars, xvars>>

Tick ==
  /\ now < MaxTime
  /\ now' = now + 1
  /\ reply' = NoReply
  /\ UNCHANGED <<jobs, codeHashToJobId, task, streams, providers>>
  /\ UNCHANGED <<wvars, fvars, hvars, xvars>>

At(id, pc) == id \in DOMAIN jobs /\ task[id].pc = pc

\* processContract resumes with the baseline profile
BaselineReturns(id) ==
  /\ At(id, "baseline")
  /\ LET r == onProgressN(World, id, "ai_optimization", 2)
     IN Commit(IF r.threw THEN runJobCatch(r.w, id, task[id], r.message)
               ELSE getOptimizations(r.w, id, task[id], "main"), id)

BaselineRaises(id, message) ==
  /\ At(id, "baseline")
  /\ Commit(runJobCatch(World, id, task[id], message), id)

\* HardhatService.getGasProfile: a poll finds the worker job queued or
\* processing and the loop goes round again
PollPending(id) ==
  /\ id \in DOMAIN jobs
  /\ task[id].pc \in {"baseline", "profile", "retryProfile"}
  /\ task[id].polls < MaxPolls
  /\ task' = [task EXCEPT ![id].polls = @ + 1]
  /\ reply' = NoReply
  /\ UNCHANGED <<jobs, codeHashToJobId, streams, now, providers>>
  /\ UNCHANGED <<wvars, fvars, hvars, xvars>>

\* HardhatService.getGasProfile: the loop's time is up
PollTimesOut(id) ==
  /\ id \in DOMAIN jobs
  /\ task[id].polls = MaxPolls
  /\ BaselineRaises(id, ErrWorkerTimeout)

\* getOptimizations resumes with the optimizer's answer
parsedDraft(w, id, tk, outcome) ==
  IF outcome = "valid" THEN generateStep(w, id, tk)
  ELSE schemaRepairStep(w, id, tk)

DraftReturns(id, outcome) ==
  /\ At(id, "draft")
  /\ LET r == onProgress(World, id, "ai_optimization")
     IN Commit(IF r.threw THEN cycleStart(r.w, id, task[id])
               ELSE IF outcome = "parseFail"
               THEN LET r2 == onProgressN(r.w, id, "ai_optimization", 2)
                    IN IF r2.threw THEN cycleStart(r2.w, id, task[id])
                       ELSE Await(r2.w, task[id], "repairParse")
               ELSE parsedDraft(r.w, id, task[id], outcome), id)

\* callWithFallback or a parse of repaired output throws inside the cycle
CycleThrows(id, pc) ==
  /\ At(id, pc)
  /\ Commit(cycleStart(World, id, task[id]), id)

RepairParseReturns(id, outcome) ==
  /\ At(id, "repairParse")
  /\ LET tk == [task[id] EXCEPT !.repairs = @ + 1]
     IN Commit(IF outcome = "parseFail" THEN cycleStart(World, id, tk)
               ELSE parsedDraft(World, id, tk, outcome), id)

RepairSchemaReturns(id, outcome) ==
  /\ At(id, "repairSchema")
  /\ LET tk == [task[id] EXCEPT !.repairs = @ + 1]
     IN Commit(IF outcome = "parseFail" THEN cycleStart(World, id, tk)
               ELSE IF outcome = "schemaFail" THEN cycleRejected(World, id, tk)
               ELSE generateStep(World, id, tk), id)

GenerateReturns(id, code, staticOk) ==
  /\ At(id, "generate")
  /\ LET tk == [task[id] EXCEPT !.gen = code]
         r == onProgress(World, id, "ai_optimization")
     IN Commit(IF r.threw THEN cycleStart(r.w, id, tk)
               ELSE IF ~staticOk THEN cycleRejected(r.w, id, tk)
               ELSE Await(r.w, tk, "verify"), id)

VerifyReturns(id, approved) ==
  /\ At(id, "verify")
  /\ Commit(IF ~approved THEN cycleRejected(World, id, task[id])
            ELSE LET r == onProgress(World, id, "ai_optimization")
                 IN IF r.threw THEN cycleStart(r.w, id, task[id])
                    ELSE getOptimizationsReturn(r.w, id, task[id], task[id].gen), id)

\* the acceptance loop resumes with the candidate's profile
ProfileReturns(id, measured) ==
  /\ At(id, "profile")
  /\ LET optimizedDynamicProfile == workerResult(task[id].candidate, measured)
         checked == validateOptimizedCandidate(BaselineProfile, optimizedDynamicProfile)
         r == onProgress(World, id, "ai_optimization")
     IN Commit(IF r.threw THEN runJobCatch(r.w, id, task[id], r.message)
               ELSE IF checked.accepted
               THEN processContractTail(r.w, id, task[id],
                      Accepted(task[id].candidate, optimizedDynamicProfile, checked,
                               task[id].attempts))
               ELSE attemptStart(r.w, id, task[id]), id)

ProfileRaises(id, hint) ==
  /\ At(id, "profile")
  /\ LET r == onProgress(World, id, "ai_optimization")
     IN Commit(IF r.threw THEN runJobCatch(r.w, id, task[id], r.message)
               ELSE IF ~hint THEN attemptStart(r.w, id, task[id])
               ELSE LET r2 == onProgress(r.w, id, "ai_optimization")
                    IN IF r2.threw
                       THEN runJobCatch(r2.w, id, task[id], r2.message)
                       ELSE getOptimizations(r2.w, id, task[id], "corrective"), id)

RetryProfileReturns(id, measured) ==
  /\ At(id, "retryProfile")
  /\ LET retryProfile == workerResult(task[id].gen, measured)
         retryValidation == validateOptimizedCandidate(BaselineProfile, retryProfile)
     IN Commit(IF retryValidation.accepted
               THEN processContractTail(World, id, task[id],
                      retryAccepted(task[id], retryProfile, retryValidation))
               ELSE attemptStart(World, id, task[id]), id)

RetryProfileRaises(id) ==
  /\ At(id, "retryProfile")
  /\ Commit(attemptStart(World, id, task[id]), id)

\* the position emitter.on gives the next listener
nextReg == Cardinality({s \in DOMAIN streams : streams[s].reg > 0}) + 1

\* GET /analyze/jobs/:id/events
streamAnalyzeJob(s, id) ==
  /\ streams[s].state = "idle"
  /\ id \in DOMAIN jobs
  /\ LET job == getJob(jobs, id)
         backlog == [i \in 1..Len(job.events) |->
                       [frame |-> "progress", event |-> job.events[i]]]
     IN streams' = [streams EXCEPT ![s] =
          IF job.status \in Terminal
          THEN [job |-> id, joined |-> Len(job.events), state |-> "ended",
                out |-> Append(backlog, [frame |-> "done", status |-> job.status]),
                raises |-> {}, reg |-> 0]
          ELSE [job |-> id, joined |-> Len(job.events), state |-> "live",
                out |-> backlog, raises |-> {}, reg |-> nextReg]]
  /\ reply' = NoReply
  /\ UNCHANGED <<jobs, codeHashToJobId, task, now, providers>>
  /\ UNCHANGED <<wvars, fvars, hvars, xvars>>

\* req.on('close'): the client went away
streamClosed(s) ==
  /\ streams[s].state = "live"
  /\ streams' = [streams EXCEPT ![s].state = "gone"]
  /\ reply' = NoReply
  /\ UNCHANGED <<jobs, codeHashToJobId, task, now, providers>>
  /\ UNCHANGED <<wvars, fvars, hvars, xvars>>

\* AnalysisJobService.subscribe with a handler that throws on the events of
\* the phases in on
subscribe(s, id, on) ==
  /\ streams[s].state = "idle"
  /\ id \in DOMAIN jobs
  /\ streams' = [streams EXCEPT ![s] =
        [job |-> id, joined |-> Len(jobs[id].events), state |-> "live",
         out |-> <<>>, raises |-> on, reg |-> nextReg]]
  /\ reply' = NoReply
  /\ UNCHANGED <<jobs, codeHashToJobId, task, now, providers>>
  /\ UNCHANGED <<wvars, fvars, hvars, xvars>>

NoStream == [job |-> 0, joined |-> 0, state |-> "idle", out |-> <<>>,
             raises |-> {}, reg |-> 0]

OrchInit(p) ==
  /\ jobs = <<>>
  /\ codeHashToJobId = <<>>
  /\ task = [j \in JobIds |-> NoTask]
  /\ streams = [s \in StreamIds |-> NoStream]
  /\ now = 0
  /\ providers = p
  /\ reply = NoReply

Outcomes == {"valid", "parseFail", "schemaFail"}

RegistryNext ==
  \/ \E c \in Sources, ok \in BOOLEAN : createOrReuseJob(c, JobIds, ok)
  \/ \E j \in JobIds : cancelJob(j)
  \/ Tick
  \/ \E j \in JobIds : BaselineReturns(j)
  \/ \E j \in JobIds : BaselineRaises(j, ErrWorkerFailed)

PipelineNext ==
  \/ \E c \in PipelineSources, ok \in BOOLEAN : createOrReuseJob(c, PipelineJobIds, ok)
  \/ \E j \in JobIds : cancelJob(j)
  \/ \E j \in JobIds : BaselineReturns(j)
  \/ \E j \in JobIds, m \in WorkerErrors : BaselineRaises(j, m)
  \/ \E j \in JobIds, o \in Outcomes : DraftReturns(j, o)
  \/ \E j \in JobIds, pc \in {"draft", "repairParse", "repairSchema", "generate"} :
        CycleThrows(j, pc)
  \/ \E j \in JobIds, o \in Outcomes : RepairParseReturns(j, o)
  \/ \E j \in JobIds, o \in Outcomes : RepairSchemaReturns(j, o)
  \/ \E j \in JobIds, c \in Codes, ok \in BOOLEAN : GenerateReturns(j, c, ok)
  \/ \E j \in JobIds, a \in BOOLEAN : VerifyReturns(j, a)
  \/ \E j \in JobIds, p \in CandidateProfiles : ProfileReturns(j, p)
  \/ \E j \in JobIds, h \in BOOLEAN : ProfileRaises(j, h)
  \/ \E j \in JobIds : RetryProfileRaises(j)
  \/ \E j \in JobIds, p \in CandidateProfiles : RetryProfileReturns(j, p)

StreamNext ==
  \/ \E c \in PipelineSources, ok \in BOOLEAN : createOrReuseJob(c, PipelineJobIds, ok)
  \/ \E j \in JobIds : cancelJob(j)
  \/ \E j \in JobIds : BaselineReturns(j)
  \/ \E j \in JobIds, m \in WorkerErrors : BaselineRaises(j, m)
  \/ \E s \in StreamIds, j \in JobIds : streamAnalyzeJob(s, j)
  \/ \E s \in StreamIds : streamClosed(s)

\* the registry with the polls of the worker job made visible
PollNext ==
  \/ \E c \in Sources, ok \in BOOLEAN : createOrReuseJob(c, JobIds, ok)
  \/ \E j \in JobIds : cancelJob(j)
  \/ \E j \in JobIds : PollPending(j)
  \/ \E j \in JobIds : PollTimesOut(j)
  \/ \E j \in JobIds : BaselineReturns(j)
  \/ \E j \in JobIds : BaselineRaises(j, ErrWorkerFailed)

\* the stream handlers together with a subscriber whose handler throws
SubscriberNext ==
  \/ \E c \in PipelineSources, ok \in BOOLEAN : createOrReuseJob(c, PipelineJobIds, ok)
  \/ \E j \in JobIds : cancelJob(j)
  \/ \E j \in JobIds : BaselineReturns(j)
  \/ \E j \in JobIds, m \in WorkerErrors : BaselineRaises(j, m)
  \/ \E s \in StreamIds, j \in JobIds : streamAnalyzeJob(s, j)
  \/ \E s \in StreamIds : streamClosed(s)
  \/ \E s \in StreamIds, j \in JobIds, on \in {Terminal, Terminal \cup NonTerminal} :
        subscribe(s, j, on)



\* ------------------------------------------------------------------ worker
WorkerIds == 1..MaxWorkerJobs

ErrJobCancelled == "Job cancelled by user."
ErrCommandFailed == "Command failed with code 1"
ErrCommandMentionsCancel == "Command failed with code 1: cancelOrder"
ErrAborted == "Command aborted."
ErrDbDown == "Connection terminated unexpectedly"
ErrDbCancel == "canceling statement due to statement timeout"
SubprocessErrors == {ErrCommandFailed, ErrCommandMentionsCancel}
DbErrors == {ErrDbDown, ErrDbCancel}

\* error.name === 'AbortError' or the message mentions aborted / cancel
isAbortError(message) ==
  message \in {ErrAborted, ErrCommandMentionsCancel, ErrJobCancelled, ErrDbCancel}

WS ==
  [jobs |-> wjobs, controllers |-> controllers, aborted |-> aborted,
   task |-> wtask, queue |-> writeQueue, chain |-> writeChain,
   initialized |-> initialized, issued |-> issued, asked |-> cancelAsked]

\* an absent retryOf, and SQL NULL in the retry_of and result columns
NoRetryOf == 0
NullText == -1
NullJson == [present |-> FALSE, null |-> TRUE]

toWorkerPublicJob(job) == [f \in (DOMAIN job) \ {"sourceCode"} |-> job[f]]

\* JobPersistenceService.upsertJob: the row written for a record
toRow(job) ==
  [id |-> job.id, source_code |-> job.sourceCode, status |-> job.status,
   attempts |-> job.attempts, cancel_requested |-> job.cancelRequested,
   error |-> IF job.error = NoError THEN "NULL" ELSE job.error,
   result |-> IF job.result = NoResult THEN NullJson ELSE job.result,
   retry_of |-> IF job.retryOf = NoRetryOf THEN NullText ELSE job.retryOf]

\* JobPersistenceService.toJobRecord
toJobRecord(row) ==
  [id |-> row.id, sourceCode |-> row.source_code, status |-> row.status,
   attempts |-> row.attempts, cancelRequested |-> row.cancel_requested,
   error |-> IF row.error = "NULL" THEN NoError ELSE row.error,
   result |-> IF row.result = NullJson THEN NoResult ELSE row.result,
   retryOf |-> IF row.retry_of = NullText THEN NoRetryOf ELSE row.retry_of]

setJob(w, id, job) ==
  [w EXCEPT !.jobs = [i \in DOMAIN w.jobs \cup {id} |->
                        IF i = id THEN job ELSE w.jobs[i]]]

finally(w, id, pc) ==
  [w EXCEPT !.controllers = @ \ {id}, !.task[id] = pc]

RECURSIVE persistJob(_, _, _)
RECURSIVE processJobCatch(_, _, _)

\* the awaited write chain rejected: what the awaiting code does with it
persistThrew(w, entry, message) ==
  LET id == entry.job.id IN
  CASE entry.cont \in {"create", "retry", "cancel"} -> w
    [] entry.cont = "processing" -> [w EXCEPT !.task[id] = "rejected"]
    [] entry.cont = "settled" -> processJobCatch(w, id, message)
    [] OTHER -> finally(w, id, "rejected")

\* persistJob: chain the upsert behind the earlier writes and await it
persistJob(w, job, cont) ==
  IF w.chain # "resolved"
  THEN persistThrew(w, [job |-> job, cont |-> cont], w.chain)
  ELSE [w EXCEPT !.queue = Append(@, [job |-> job, cont |-> cont])]

persistCurrent(w, id, cont) ==
  IF id \notin DOMAIN w.jobs THEN w ELSE persistJob(w, w.jobs[id], cont)

\* processJob: the catch block
processJobCatch(w, id, message) ==
  IF id \notin DOMAIN w.jobs THEN finally(w, id, "finished")
  ELSE LET failed == w.jobs[id]
           w1 == IF failed.cancelRequested \/ isAbortError(message)
                 THEN setJob(w, id, [failed EXCEPT !.status = "cancelled",
                                                   !.error = ErrJobCancelled])
                 ELSE setJob(w, id, [failed EXCEPT !.status = "failed",
                                                   !.error = message])
       IN persistCurrent([w1 EXCEPT !.task[id] = "settling"], id, "caught")

\* processJob: after getGasProfile has returned
processJobReturned(w, id, result) ==
  IF id \notin DOMAIN w.jobs THEN finally(w, id, "finished")
  ELSE LET done == w.jobs[id]
           w1 == IF done.cancelRequested
                 THEN setJob(w, id, [done EXCEPT !.status = "cancelled",
                                                 !.error = ErrJobCancelled])
                 ELSE setJob(w, id, [done EXCEPT !.status = "completed",
                                                 !.result = result,
                                                 !.error = NoError])
       IN persistCurrent([w1 EXCEPT !.task[id] = "settling"], id, "settled")

\* processJob up to its first await
processJob(w, id) ==
  IF id \notin DOMAIN w.jobs \/ w.jobs[id].cancelRequested
     \/ w.jobs[id].status = "cancelled"
  THEN w
  ELSE LET w1 == [w EXCEPT !.controllers = @ \cup {id}, !.aborted = @ \ {id}]
           w2 == setJob(w1, id, [w.jobs[id] EXCEPT !.status = "processing",
                                                   !.error = NoError])
       IN persistCurrent([w2 EXCEPT !.task[id] = "persisting"], id, "processing")

\* the awaited write chain resolved: the code after the await
persistResumed(w, entry) ==
  LET id == entry.job.id IN
  CASE entry.cont \in {"create", "retry"} -> processJob(w, id)
    [] entry.cont = "cancel" ->
         [w EXCEPT !.aborted = IF id \in w.controllers THEN @ \cup {id} ELSE @]
    [] entry.cont = "processing" ->
         \* getGasProfile starts with throwIfAborted(signal)
         IF id \in w.aborted THEN processJobCatch(w, id, ErrAborted)
         ELSE [w EXCEPT !.task[id] = "running"]
    [] OTHER -> finally(w, id, "finished")

RECURSIVE rejectAll(_, _, _)
rejectAll(w, q, message) ==
  IF q = <<>> THEN w
  ELSE rejectAll(persistThrew(w, Head(q), message), Tail(q), message)

NewWorkerJob(id, code, attempts, retryOf) ==
  [id |-> id, sourceCode |-> code, status |-> "queued", attempts |-> attempts,
   cancelRequested |-> FALSE, error |-> NoError, result |-> NoResult,
   retryOf |-> retryOf]

\* the handlers, after ensureInitialized
createAnalysisJob(w, code) ==
  LET id == w.issued + 1
      job == NewWorkerJob(id, code, 1, NoRetryOf)
  IN persistJob(setJob([w EXCEPT !.issued = id], id, job), job, "create")

cancelWorkerJob(w, id) ==
  IF id \notin DOMAIN w.jobs THEN w
  ELSE IF w.jobs[id].status \in Terminal THEN w
  ELSE LET job == w.jobs[id]
           updated == [job EXCEPT !.cancelRequested = TRUE,
                                  !.error = ErrJobCancelled,
                                  !.status = IF job.status = "queued"
                                             THEN "cancelled" ELSE @]
       IN persistJob(setJob([w EXCEPT !.asked = @ \cup {id}], id, updated),
                     updated, "cancel")

retryJob(w, id) ==
  IF id \notin DOMAIN w.jobs THEN w
  ELSE IF w.jobs[id].status \notin {"failed", "cancelled"} THEN w
  ELSE LET previous == w.jobs[id]
           retryId == w.issued + 1
           job == NewWorkerJob(retryId, previous.sourceCode,
                               previous.attempts + 1, previous.id)
       IN persistJob(setJob([w EXCEPT !.issued = retryId], retryId, job), job, "retry")

handler(w, op, id) ==
  CASE op = "create" -> createAnalysisJob(w, <<"A">>)
    [] op = "get" -> w
    [] op = "cancel" -> cancelWorkerJob(w, id)
    [] OTHER -> retryJob(w, id)

WCommit(w) ==
  /\ wjobs' = w.jobs
  /\ controllers' = w.controllers
  /\ aborted' = w.aborted
  /\ wtask' = w.task
  /\ writeQueue' = w.queue
  /\ writeChain' = w.chain
  /\ initialized' = w.initialized
  /\ issued' = w.issued
  /\ cancelAsked' = w.asked
  /\ UNCHANGED <<ovars, fvars, hvars, xvars>>

Ops == {"create", "get", "cancel", "retry"}

\* whether the request would allocate a job or a write (the model's budget)
Admitted(op, id) ==
  LET waiting(ops) == Cardinality({l \in DOMAIN loads : loads[l].op \in ops})
  IN /\ op \in {"create", "retry"} =>
          issued + waiting({"create", "retry"}) < MaxWorkerJobs
     /\ op \in {"create", "retry", "cancel"} =>
          Len(writeQueue) + waiting({"create", "retry", "cancel"}) < MaxQueue
     /\ op # "create" => id \in 1..issued

\* a request arrives at an initialized store
Request(op, id) ==
  /\ initialized
  /\ Admitted(op, id)
  /\ WCommit(handler(WS, op, id))
  /\ UNCHANGED <<store, loads, restarts>>

\* a request arrives before the store is initialized: ensureInitialized
\* issues loadJobs and the handler waits for it
RequestLoads(op, id) ==
  /\ ~initialized
  /\ Len(loads) < MaxLoads
  /\ Admitted(op, id)
  /\ loads' = Append(loads, [op |-> op, id |-> id, read |-> FALSE, rows |-> <<>>])
  /\ UNCHANGED <<wjobs, controllers, aborted, wtask, writeQueue, writeChain,
                 initialized, issued, store, restarts, cancelAsked>>
  /\ UNCHANGED <<ovars, fvars, hvars, xvars>>

\* the SELECT of a pending loadJobs runs
LoadReads(l) ==
  /\ l \in DOMAIN loads
  /\ ~loads[l].read
  /\ loads' = [loads EXCEPT ![l].rows = store, ![l].read = TRUE]
  /\ UNCHANGED <<wjobs, controllers, aborted, wtask, writeQueue, writeChain,
                 initialized, issued, store, restarts, cancelAsked>>
  /\ UNCHANGED <<ovars, fvars, hvars, xvars>>

\* ensureInitialized resumes with the rows and the handler runs
LoadReturns(l) ==
  /\ l \in DOMAIN loads
  /\ loads[l].read
  /\ LET rows == loads[l].rows
         loaded == [WS EXCEPT
                      !.jobs = [i \in DOMAIN wjobs \cup DOMAIN rows |->
                                  IF i \in DOMAIN rows THEN toJobRecord(rows[i])
                                  ELSE wjobs[i]],
                      !.initialized = TRUE]
     IN WCommit(handler(loaded, loads[l].op, loads[l].id))
  /\ loads' = [i \in 1..(Len(loads) - 1) |-> IF i < l THEN loads[i] ELSE loads[i + 1]]
  /\ UNCHANGED <<store, restarts>>

\* the upsert at the head of the write chain succeeds
WriteSucceeds ==
  /\ writeQueue # <<>>
  /\ LET entry == Head(writeQueue)
     IN /\ store' = [i \in DOMAIN store \cup {entry.job.id} |->
                       IF i = entry.job.id THEN toRow(entry.job) ELSE store[i]]
        /\ WCommit(persistResumed([WS EXCEPT !.queue = Tail(writeQueue)], entry))
  /\ UNCHANGED <<loads, restarts>>

\* the upsert at the head of the write chain fails: the chain stays rejected
WriteFails(message) ==
  /\ writeQueue # <<>>
  /\ WCommit(rejectAll([WS EXCEPT !.queue = <<>>, !.chain = message],
                       writeQueue, message))
  /\ UNCHANGED <<store, loads, restarts>>

SubprocessSucceeds(id) ==
  /\ wtask[id] = "running"
  /\ WCommit(processJobReturned(WS, id, [present |-> TRUE, profile |-> id]))
  /\ UNCHANGED <<store, loads, restarts>>

SubprocessFails(id, message) ==
  /\ wtask[id] = "running"
  /\ message = ErrAborted => id \in aborted
  /\ WCommit(processJobCatch(WS, id, message))
  /\ UNCHANGED <<store, loads, restarts>>

\* the worker process is restarted: memory is lost, the table is kept
Restart ==
  /\ restarts < MaxRestarts
  /\ restarts' = restarts + 1
  /\ wjobs' = <<>>
  /\ controllers' = {}
  /\ aborted' = {}
  /\ wtask' = [j \in WorkerIds |-> "none"]
  /\ writeQueue' = <<>>
  /\ writeChain' = "resolved"
  /\ initialized' = FALSE
  /\ loads' = <<>>
  /\ UNCHANGED <<store, issued, cancelAsked>>
  /\ UNCHANGED <<ovars, fvars, hvars, xvars>>

WorkerInit ==
  /\ wjobs = <<>>
  /\ store = <<>>
  /\ controllers = {}
  /\ aborted = {}
  /\ wtask = [j \in WorkerIds |-> "none"]
  /\ writeQueue = <<>>
  /\ writeChain = "resolved"
  /\ initialized = FALSE
  /\ loads = <<>>
  /\ issued = 0
  /\ restarts = 0
  /\ cancelAsked = {}

WorkerNext ==
  \/ \E op \in Ops, id \in WorkerIds : Request(op, id)
  \/ \E op \in Ops, id \in WorkerIds : RequestLoads(op, id)
  \/ \E l \in 1..MaxLoads : LoadReads(l)
  \/ \E l \in 1..MaxLoads : LoadReturns(l)
  \/ WriteSucceeds
  \/ \E m \in DbErrors : WriteFails(m)
  \/ \E id \in WorkerIds : SubprocessSucceeds(id)
  \/ \E id \in WorkerIds, m \in SubprocessErrors \cup {ErrAborted} : SubprocessFails(id, m)
  \/ Restart


\* ------------------------------------------------ worker gas profiling
\* WorkerAnalysisService.getGasProfile: the temporary source file, the
\* per-job artifact folder and the hardhat child processes

ProfileIds == 1..MaxProfiled

\* a call is not started, waits for fs.writeFile, for the compile child, for
\* the estimator child, for the cleanup of its finally block, or has settled;
\* "then" is how the call settles once the cleanup has run
Step(pc, then) == [pc |-> pc, then |-> then]

ProfilerInit ==
  /\ profiling = [id \in ProfileIds |-> Step("none", "none")]
  /\ signalAborted = {}
  /\ sourceFiles = {}
  /\ artifactFolders = {}
  /\ child = [id \in ProfileIds |-> "none"]

\* the call begins: throwIfAborted, then fs.writeFile is started
getGasProfile(id) ==
  /\ profiling[id].pc = "none"
  /\ profiling' = [profiling EXCEPT ![id] =
       IF id \in signalAborted THEN Step("settled", "aborted") ELSE Step("writing", "none")]
  /\ UNCHANGED <<signalAborted, sourceFiles, artifactFolders, child>>
  /\ UNCHANGED <<ovars, wvars, fvars, xvars>>

\* fs.writeFile resolves: the try block is entered, throwIfAborted, and the
\* compile child is spawned
SourceWritten(id) ==
  /\ profiling[id].pc = "writing"
  /\ sourceFiles' = sourceFiles \cup {id}
  /\ IF id \in signalAborted
     THEN /\ profiling' = [profiling EXCEPT ![id] = Step("cleaning", "aborted")]
          /\ child' = child
     ELSE /\ profiling' = [profiling EXCEPT ![id] = Step("compiling", "none")]
          /\ child' = [child EXCEPT ![id] = "running"]
  /\ UNCHANGED <<signalAborted, artifactFolders>>
  /\ UNCHANGED <<ovars, wvars, fvars, xvars>>

\* execHardhat's abort listener: SIGTERM is sent and the promise is rejected
\* at once, which enters the finally block of getGasProfile
onAbort(id) ==
  /\ profiling' = [profiling EXCEPT ![id] = Step("cleaning", "aborted")]
  /\ child' = [child EXCEPT ![id] = "terminating"]

\* the job's AbortController fires; the listener exists while a child is
\* awaited
abort(id) ==
  /\ id \notin signalAborted
  /\ profiling[id].pc # "settled"
  /\ signalAborted' = signalAborted \cup {id}
  /\ IF profiling[id].pc \in {"compiling", "estimating"}
     THEN onAbort(id)
     ELSE UNCHANGED <<profiling, child>>
  /\ UNCHANGED <<sourceFiles, artifactFolders>>
  /\ UNCHANGED <<ovars, wvars, fvars, xvars>>

\* the child (hardhat compile, or the compile step of hardhat run) emits the
\* artifacts of the job's source file; a child that was sent SIGTERM runs
\* until it has exited
ChildWrites(id) ==
  /\ child[id] \in {"running", "terminating"}
  /\ id \notin artifactFolders
  /\ artifactFolders' = artifactFolders \cup {id}
  /\ UNCHANGED <<profiling, signalAborted, sourceFiles, child>>
  /\ UNCHANGED <<ovars, wvars, fvars, xvars>>

\* the child's close event with exit code 0 or not: after the compile the
\* estimator is spawned, after the estimator the artifact is read
ChildCloses(id, ok) ==
  /\ child[id] = "running"
  /\ ok => id \in artifactFolders
  /\ IF ~ok
     THEN /\ profiling' = [profiling EXCEPT ![id] = Step("cleaning", "raised")]
          /\ child' = [child EXCEPT ![id] = "none"]
     ELSE IF profiling[id].pc = "compiling"
     THEN /\ profiling' = [profiling EXCEPT ![id] = Step("estimating", "none")]
          /\ child' = child
     ELSE /\ profiling' = [profiling EXCEPT ![id] = Step("cleaning", "returned")]
          /\ child' = [child EXCEPT ![id] = "none"]
  /\ UNCHANGED <<signalAborted, sourceFiles, artifactFolders>>
  /\ UNCHANGED <<ovars, wvars, fvars, xvars>>

\* a child that was sent SIGTERM exits; its close handler returns at once
ChildExits(id) ==
  /\ child[id] = "terminating"
  /\ child' = [child EXCEPT ![id] = "none"]
  /\ UNCHANGED <<profiling, signalAborted, sourceFiles, artifactFolders>>
  /\ UNCHANGED <<ovars, wvars, fvars, xvars>>

\* the finally block: fs.unlink and fs.rm have both settled, and the call
\* returns or raises
Cleanup(id) ==
  /\ profiling[id].pc = "cleaning"
  /\ sourceFiles' = sourceFiles \ {id}
  /\ artifactFolders' = artifactFolders \ {id}
  /\ profiling' = [profiling EXCEPT ![id] = Step("settled", @.then)]
  /\ UNCHANGED <<signalAborted, child>>
  /\ UNCHANGED <<ovars, wvars, fvars, xvars>>

ProfilerNext ==
  \/ \E id \in ProfileIds : getGasProfile(id)
  \/ \E id \in ProfileIds : SourceWritten(id)
  \/ \E id \in ProfileIds : abort(id)
  \/ \E id \in ProfileIds : ChildWrites(id)
  \/ \E id \in ProfileIds, ok \in BOOLEAN : ChildCloses(id, ok)
  \/ \E id \in ProfileIds : ChildExits(id)
  \/ \E id \in ProfileIds : Cleanup(id)

\* ------------------------------------------------------- worker client
\* HardhatService.getGasProfile: create a worker job, then poll it

\* calls share no state, so one call is followed
CallIds == {1}

ErrWorkerRejected == "Worker rejected analysis request: HTTP 500"
ErrNoJobId == "Worker response did not include a job id."
ErrNotFound == "Worker job was not found."
ErrStatusRequest == "Worker status request failed: HTTP 500"
ErrNoWorkerResult == "Worker completed without returning result."
ErrWorkerAnalysisFailed == "Worker analysis failed."
ErrWorkerAnalysisCancelled == "Worker analysis cancelled."
ErrFetch == "fetch failed"

NoCall == [pc |-> "none", elapsed |-> 0, result |-> NoResult, error |-> NoError]
NoRemote == [status |-> "none", result |-> NoResult, error |-> NoError]

ClientInit ==
  /\ client = [c \in CallIds |-> NoCall]
  /\ remote = [c \in CallIds |-> NoRemote]

\* the time since startedAt, in poll intervals; times past the timeout are
\* not told apart
Elapse(t, d) == IF t + d > MaxPolls THEN MaxPolls + 1 ELSE t + d

Raise(call, message) == [call EXCEPT !.pc = "raised", !.error = message]

\* variant: the loop goes round whatever time has passed
loopHeadUnbounded(call) == [call EXCEPT !.pc = "sleeping"]

\* while (Date.now() - startedAt < timeoutMs), with the time in poll intervals
loopHead(call) ==
  IF call.elapsed < MaxPolls THEN [call EXCEPT !.pc = "sleeping"]
  ELSE Raise(call, ErrWorkerTimeout)

\* the call begins: POST /jobs/analyze is sent
HardhatService_getGasProfile(c) ==
  /\ client[c].pc = "none"
  /\ client' = [client EXCEPT ![c].pc = "creating"]
  /\ UNCHANGED remote
  /\ UNCHANGED <<ovars, wvars, fvars, hvars, pvars, avars, gvars, lvars, rvars>>

\* the POST is answered: not ok, without a job id, or with the id of a new
\* queued job
CreateResponds(c, answer) ==
  /\ client[c].pc = "creating"
  /\ client' = [client EXCEPT ![c] =
       CASE answer = "notOk" -> Raise(@, ErrWorkerRejected)
         [] answer = "noId" -> Raise(@, ErrNoJobId)
         [] OTHER -> loopHead(@)]
  /\ remote' = [remote EXCEPT ![c].status =
                  IF answer = "notOk" THEN @ ELSE "queued"]
  /\ UNCHANGED <<ovars, wvars, fvars, hvars, pvars, avars, gvars, lvars, rvars>>

\* the sleep of one poll interval ends and GET /jobs/:id is sent
SleepEnds(c) ==
  /\ client[c].pc = "sleeping"
  /\ client' = [client EXCEPT ![c].pc = "polling", ![c].elapsed = Elapse(@, 1)]
  /\ UNCHANGED remote
  /\ UNCHANGED <<ovars, wvars, fvars, hvars, pvars, avars, gvars, lvars, rvars>>

\* the body of the loop after a 200 answer
statusPayload(call, payload) ==
  CASE payload.status = "completed" ->
         IF payload.result = NoResult THEN Raise(call, ErrNoWorkerResult)
         ELSE [call EXCEPT !.pc = "returned", !.result = payload.result]
    [] payload.status = "failed" ->
         Raise(call, IF payload.error = NoError THEN ErrWorkerAnalysisFailed
                     ELSE payload.error)
    [] payload.status = "cancelled" ->
         Raise(call, IF payload.error = NoError THEN ErrWorkerAnalysisCancelled
                     ELSE payload.error)
    [] OTHER -> loopHead(call)

\* the GET is answered after delay more poll intervals: 404 when the worker
\* does not know the job, another error status, or the job as it is now
StatusResponds(c, delay, ok) ==
  /\ client[c].pc = "polling"
  /\ LET call == [client[c] EXCEPT !.elapsed = Elapse(@, delay)]
     IN client' = [client EXCEPT ![c] =
          IF remote[c].status = "missing" THEN Raise(call, ErrNotFound)
          ELSE IF ~ok THEN Raise(call, ErrStatusRequest)
          ELSE statusPayload(call, remote[c])]
  /\ UNCHANGED remote
  /\ UNCHANGED <<ovars, wvars, fvars, hvars, pvars, avars, gvars, lvars, rvars>>

\* fetch rejects: the worker cannot be reached
FetchFails(c) ==
  /\ client[c].pc \in {"creating", "polling"}
  /\ client' = [client EXCEPT ![c] = Raise(@, ErrFetch)]
  /\ UNCHANGED remote
  /\ UNCHANGED <<ovars, wvars, fvars, hvars, pvars, avars, gvars, lvars, rvars>>

\* the worker moves its job on (or loses it)
RemoteMoves(c, to) ==
  /\ \/ remote[c].status = "queued" /\ to.status \in {"processing", "cancelled", "missing"}
     \/ remote[c].status = "processing"
          /\ to.status \in {"completed", "failed", "cancelled", "missing"}
  /\ remote' = [remote EXCEPT ![c] = to]
  /\ UNCHANGED client
  /\ UNCHANGED <<ovars, wvars, fvars, hvars, pvars, avars, gvars, lvars, rvars>>

\* what the worker can report of a job once it has moved
RemoteStates ==
  {[status |-> "processing", result |-> NoResult, error |-> NoError],
   [status |-> "completed", result |-> [present |-> TRUE, profile |-> 1], error |-> NoError],
   [status |-> "completed", result |-> NoResult, error |-> NoError],
   [status |-> "failed", result |-> NoResult, error |-> ErrWorkerFailed],
   [status |-> "failed", result |-> NoResult, error |-> NoError],
   [status |-> "failed", result |-> [present |-> TRUE, profile |-> 1], error |-> ErrWorkerFailed],
   [status |-> "cancelled", result |-> NoResult, error |-> ErrWorkerCancelled],
   [status |-> "missing", result |-> NoResult, error |-> NoError]}

ClientStep(c) ==
  \/ \E answer \in {"notOk", "noId", "created"} : CreateResponds(c, answer)
  \/ SleepEnds(c)
  \/ \E delay \in {0, 1}, ok \in BOOLEAN : StatusResponds(c, delay, ok)
  \/ FetchFails(c)

ClientNext ==
  \/ \E c \in CallIds : HardhatService_getGasProfile(c)
  \/ \E c \in CallIds : ClientStep(c)
  \/ \E c \in CallIds, to \in RemoteStates : RemoteMoves(c, to)

\* ------------------------------------------------------------ proof mint
\* ProofMintService.buildProofPayload and the two endpoints that call it

\* gas amounts run past 32 bits, so a JavaScript number that is a whole
\* amount is kept as four digits of base 10000, the lowest first; the values
\* of the double arithmetic below are exact at these magnitudes
Carry(a) ==
  LET s2 == a[2] + (a[1] \div 10000)
      s3 == a[3] + (s2 \div 10000)
      s4 == a[4] + (s3 \div 10000)
  IN <<a[1] % 10000, s2 % 10000, s3 % 10000, s4>>

Big(n) == Carry(<<n, 0, 0, 0>>)
BigAdd(a, b) == Carry([i \in 1..4 |-> a[i] + b[i]])
BigScale(a, k) == Carry([i \in 1..4 |-> a[i] * k])

BigLess(a, b) ==
  \E i \in 1..4 : a[i] < b[i] /\ \A j \in (i + 1)..4 : a[j] = b[j]

\* a - b for a >= b
BigSub(a, b) ==
  LET x1 == a[1] - b[1]
      b1 == IF x1 < 0 THEN 1 ELSE 0
      x2 == a[2] - b[2] - b1
      b2 == IF x2 < 0 THEN 1 ELSE 0
      x3 == a[3] - b[3] - b2
      b3 == IF x3 < 0 THEN 1 ELSE 0
  IN <<x1 + 10000 * b1, x2 + 10000 * b2, x3 + 10000 * b3, a[4] - b[4] - b3>>

\* floor(a / k) for a small positive k
BigDivSmall(a, k) ==
  LET c4 == a[4]
      c3 == (c4 % k) * 10000 + a[3]
      c2 == (c3 % k) * 10000 + a[2]
      c1 == (c2 % k) * 10000 + a[1]
  IN Carry(<<c1 \div k, c2 \div k, c3 \div k, c4 \div k>>)

\* floor(n / d) when it lies in lo..hi
RECURSIVE BigQuotient(_, _, _, _)
BigQuotient(n, d, lo, hi) ==
  IF lo = hi THEN lo
  ELSE LET mid == (lo + hi + 1) \div 2
       IN IF BigLess(n, BigScale(d, mid)) THEN BigQuotient(n, d, lo, mid - 1)
          ELSE BigQuotient(n, d, mid, hi)

\* Number(text) of a text that is no number
NotANumber == <<>>
isFinite(x) == x # NotANumber

Uint32Max == <<7295, 9496, 42, 0>>

\* Math.round of sum / count, halves upwards
roundedAverage(sum, count) == BigDivSmall(BigAdd(BigScale(sum, 2), Big(count)), 2 * count)

\* toUint32 of the number sum / count
toUint32(sum, count) ==
  IF ~isFinite(sum) \/ sum = Big(0) THEN Big(0)
  ELSE LET rounded == roundedAverage(sum, count)
       IN IF BigLess(Uint32Max, rounded) THEN Uint32Max ELSE rounded

RECURSIVE BigSum(_)
BigSum(q) == IF q = <<>> THEN Big(0) ELSE BigAdd(Head(q), BigSum(Tail(q)))

coerceGas(gasProfile) ==
  LET taken == SelectSeq(gasProfile.functions, LAMBDA entry :
                 /\ entry.status = "measured"
                 /\ entry.stateMutability \in {"nonpayable", "payable"}
                 /\ isFinite(entry.gasUsed) /\ entry.gasUsed # Big(0))
      numericFns == [i \in DOMAIN taken |-> taken[i].gasUsed]
  IN IF Len(numericFns) > 0 THEN toUint32(BigSum(numericFns), Len(numericFns))
     ELSE toUint32(gasProfile.deploymentGas, 1)

\* variant: the savings are not held to 0..10000
savingsUnclamped(originalGas, optimizedGas) ==
  IF originalGas = Big(0) THEN 0
  ELSE IF BigLess(originalGas, optimizedGas) THEN -1
  ELSE BigQuotient(BigAdd(BigScale(BigSub(originalGas, optimizedGas), 20000), originalGas),
                   BigScale(originalGas, 2), 0, 10001)

\* max(0, min(10000, round((originalGas - optimizedGas) / originalGas * 10000)))
savingsPercentBps(originalGas, optimizedGas) ==
  IF originalGas = Big(0) THEN 0
  ELSE IF BigLess(originalGas, optimizedGas) THEN 0
  ELSE LET rounded ==
             BigQuotient(BigAdd(BigScale(BigSub(originalGas, optimizedGas), 20000),
                                originalGas),
                         BigScale(originalGas, 2), 0, 10001)
       IN IF rounded > 10000 THEN 10000 ELSE rounded

ErrResultMissing == "Analysis result is missing."
ErrNotCompleted == "Analysis job must be completed before proof generation."
ErrNotAccepted == "Optimization did not pass final acceptance validation."
ErrProfileMissing == "Missing optimized gas profile for accepted optimization."
ErrMintConfig == "CHAIN_RPC_URL is required to mint proofs."
ErrMintReverted == "transaction failed"

ZeroAddress == "0x0000000000000000000000000000000000000000"

keccak256(text) == <<"keccak256", text>>

\* buildProofPayload: the payload of a job that passed the guards
proofPayload(job, contractAddress, contractName) ==
  LET originalCode == job.code
      optimizedCode == IF job.result.aiOptimizations.optimizedContract = ""
                       THEN job.code
                       ELSE job.result.aiOptimizations.optimizedContract
      originalGas == coerceGas(job.result.dynamicProfile.gasProfile)
      optimizedGas == coerceGas(job.result.optimizedDynamicProfile.gasProfile)
  IN [raised |-> FALSE,
      originalHash |-> keccak256(originalCode),
      optimizedHash |-> keccak256(optimizedCode),
      contractAddress |-> IF contractAddress = "" THEN ZeroAddress
                          ELSE contractAddress,
      contractName |-> IF contractName # "" THEN contractName
                       ELSE IF job.result.staticProfile.contractName # ""
                       THEN job.result.staticProfile.contractName
                       ELSE "UnknownContract",
      originalGas |-> originalGas,
      optimizedGas |-> optimizedGas,
      savingsPercentBps |-> savingsPercentBps(originalGas, optimizedGas)]

\* variant: acceptance is not looked at
buildProofPayloadUnchecked(job, contractAddress, contractName) ==
  IF job.result = NoResult THEN [raised |-> TRUE, message |-> ErrResultMissing]
  ELSE IF job.status # "completed" THEN [raised |-> TRUE, message |-> ErrNotCompleted]
  ELSE IF job.result.optimizedDynamicProfile = NoProfile
  THEN [raised |-> TRUE, message |-> ErrProfileMissing]
  ELSE proofPayload(job, contractAddress, contractName)

buildProofPayload(job, contractAddress, contractName) ==
  IF job.result = NoResult THEN [raised |-> TRUE, message |-> ErrResultMissing]
  ELSE IF job.status # "completed" THEN [raised |-> TRUE, message |-> ErrNotCompleted]
  ELSE IF ~job.result.optimizationValidation.accepted
  THEN [raised |-> TRUE, message |-> ErrNotAccepted]
  ELSE IF job.result.optimizedDynamicProfile = NoProfile
  THEN [raised |-> TRUE, message |-> ErrProfileMissing]
  ELSE proofPayload(job, contractAddress, contractName)

\* POST /analyze/jobs/:id/proof-payload
getProofPayloadFromJob(contractAddress, contractName) ==
  /\ Len(proofReply) < MaxProofRequests
  /\ LET payload == buildProofPayload(proofJob, contractAddress, contractName)
     IN proofReply' = Append(proofReply,
          IF payload.raised THEN [status |-> 400, error |-> payload.message]
          ELSE [status |-> 200, payload |-> payload])
  /\ UNCHANGED <<proofJob, submitted>>
  /\ UNCHANGED <<ovars, wvars, fvars, hvars, cvars, avars, gvars, lvars, rvars>>

\* POST /analyze/jobs/:id/mint-proof: mintProof needs its configuration, and
\* the transaction it sends is mined or fails
mintProofFromJob(contractAddress, contractName, configured, mined) ==
  /\ Len(proofReply) < MaxProofRequests
  /\ LET payload == buildProofPayload(proofJob, contractAddress, contractName)
     IN /\ proofReply' = Append(proofReply,
             IF payload.raised THEN [status |-> 400, error |-> payload.message]
             ELSE IF ~configured THEN [status |-> 400, error |-> ErrMintConfig]
             ELSE IF ~mined THEN [status |-> 400, error |-> ErrMintReverted]
             ELSE [status |-> 200, payload |-> payload])
        /\ submitted' = IF payload.raised \/ ~configured THEN submitted
                        ELSE Append(submitted, payload)
  /\ UNCHANGED proofJob
  /\ UNCHANGED <<ovars, wvars, fvars, hvars, cvars, avars, gvars, lvars, rvars>>

\* the gas texts of the profiles the endpoints are run on: amounts below,
\* at and above 2^32 - 1, zero, and a text that is no number
GasTables ==
  {<<>>,
   <<Measured(Big(100000), "nonpayable")>>,
   <<Measured(Big(80000), "payable"), Measured(Big(7), "view")>>,
   <<Measured(Big(19999), "nonpayable"), Measured(Big(0), "payable"),
     Measured(NotANumber, "payable")>>,
   <<Measured(Big(1), "payable"), Measured(Big(2), "nonpayable")>>,
   <<Measured(Uint32Max, "payable"), Measured(<<7296, 9496, 42, 0>>, "nonpayable")>>,
   <<Measured(<<0, 0, 50, 0>>, "nonpayable"), Unmeasured("payable")>>}

GasProfiles ==
  {[gasProfile |-> [deploymentGas |-> d, functions |-> f]] :
     d \in {Big(20000), NotANumber}, f \in GasTables}

ProofResults ==
  {NoResult} \cup
  {[present |-> TRUE,
    staticProfile |-> [contractName |-> n],
    dynamicProfile |-> b,
    aiOptimizations |-> [optimizedContract |-> c],
    optimizedDynamicProfile |-> o,
    optimizationValidation |-> [accepted |-> a]] :
     n \in {"Vault"}, b \in GasProfiles, c \in {"", "c1"},
     o \in GasProfiles \cup {NoProfile}, a \in BOOLEAN}

ProofJobs ==
  {[status |-> st, code |-> "orig", result |-> r] :
     st \in Terminal \cup NonTerminal, r \in ProofResults}

NoProofState ==
  /\ proofJob = [status |-> "queued", code |-> "orig", result |-> NoResult]
  /\ proofReply = <<>>
  /\ submitted = <<>>

ProofInit ==
  /\ proofJob \in ProofJobs
  /\ proofReply = <<>>
  /\ submitted = <<>>

ProofNext ==
  \/ \E a \in {"", "0xA"}, n \in {"", "Mine"} : getProofPayloadFromJob(a, n)
  \/ \E a \in {"", "0xA"}, n \in {"", "Mine"}, configured, mined \in BOOLEAN :
        mintProofFromJob(a, n, configured, mined)

\* ------------------------------------------------------ provider fallback
\* AIOptimizerService.callWithFallback

\* getProviders(): the configured providers and their models, in order
ProviderList ==
  <<[name |-> "gemini", models |-> <<"gemini-pro", "gemini-flash">>],
    [name |-> "openai", models |-> <<"gpt">>]>>

\* how provider.generate can end: a text, an empty text, an error whose
\* message isRetriableError accepts, an error it does not accept
GenerateOutcomes == {"text", "empty", "retriable", "fatal"}

\* isRetriableError; the error thrown for an empty text is 'Empty AI response.'
isRetriableError(outcome) == outcome = "retriable"

NoFallback ==
  [pc |-> "none", provider |-> 1, model |-> 1, retry |-> 0, slept |-> FALSE,
   attempts |-> <<>>, failures |-> <<>>, retriesUsed |-> 0]

FallbackInit == fallback = NoFallback

\* the loops' next iteration once retry has been incremented
RECURSIVE nextIteration(_)
nextIteration(c) ==
  IF c.provider > Len(ProviderList) THEN [c EXCEPT !.pc = "raised"]
  ELSE IF c.model > Len(ProviderList[c.provider].models)
  THEN nextIteration([c EXCEPT !.provider = @ + 1, !.model = 1, !.retry = 0])
  ELSE IF c.retry > ProviderRetries
  THEN nextIteration([c EXCEPT !.model = @ + 1, !.retry = 0])
  ELSE [c EXCEPT !.pc = "calling"]

\* the call begins: the first provider.generate is awaited
callWithFallback ==
  /\ fallback.pc = "none"
  /\ fallback' = nextIteration(fallback)
  /\ UNCHANGED <<ovars, wvars, fvars, hvars, cvars, pvars, gvars, lvars, rvars>>

\* provider.generate settles
GenerateSettles(outcome) ==
  /\ fallback.pc = "calling"
  /\ LET attempt == [provider |-> ProviderList[fallback.provider].name,
                     model |-> ProviderList[fallback.provider].models[fallback.model],
                     retry |-> fallback.retry, outcome |-> outcome,
                     slept |-> fallback.slept]
         tried == [fallback EXCEPT !.attempts = Append(@, attempt), !.slept = FALSE]
         failed == [tried EXCEPT !.failures = Append(@, attempt)]
     IN fallback' =
          IF outcome = "text"
          THEN [tried EXCEPT !.pc = "returned", !.retriesUsed = fallback.retry]
          ELSE IF ~isRetriableError(outcome) \/ fallback.retry = ProviderRetries
          THEN \* continue: the retry loop goes on to its next iteration
               nextIteration([failed EXCEPT !.retry = @ + 1])
          ELSE [failed EXCEPT !.pc = "sleeping"]
  /\ UNCHANGED <<ovars, wvars, fvars, hvars, cvars, pvars, gvars, lvars, rvars>>

\* the backoff sleep ends
BackoffEnds ==
  /\ fallback.pc = "sleeping"
  /\ fallback' = nextIteration([fallback EXCEPT !.retry = @ + 1, !.slept = TRUE])
  /\ UNCHANGED <<ovars, wvars, fvars, hvars, cvars, pvars, gvars, lvars, rvars>>

FallbackNext ==
  \/ callWithFallback
  \/ \E o \in GenerateOutcomes : GenerateSettles(o)
  \/ BackoffEnds

\* ------------------------------------------------------------ optimizer
\* AIOptimizerService.getOptimizations, one call followed through its cycles

NoOptimizer ==
  [pc |-> "none", cycle |-> 0, schemaRepairAttempts |-> 0, warnings |-> <<>>,
   lastError |-> "No successful AI result.",
   \* what was sent to the AI, and what the cycles that failed failed on
   repairCalls |-> <<>>, verifierCalls |-> <<>>, failed |-> <<>>,
   \* what the current cycle has established
   schemaValid |-> FALSE, sane |-> FALSE, staticValid |-> FALSE, verdict |-> "none",
   generated |-> "orig", result |-> NoResult]

OptimizerInit == optimizer = NoOptimizer

\* the response returned when every cycle has failed
fallbackResponse(o) ==
  [present |-> TRUE, fallback |-> TRUE, optimizedContract |-> "orig",
   totalEstimatedSaving |-> <<"Unavailable (AI failed: ", o.lastError, ")">>,
   meta |-> [provider |-> "none", schemaRepairAttempts |-> o.schemaRepairAttempts,
             warnings |-> o.warnings]]

\* the for statement's next iteration
nextCycle(o) ==
  IF o.cycle >= MaxOptimizerCycles
  THEN [o EXCEPT !.pc = "returned", !.result = fallbackResponse(o)]
  ELSE [o EXCEPT !.pc = "draft", !.cycle = @ + 1, !.schemaValid = FALSE,
                 !.sane = FALSE, !.staticValid = FALSE, !.verdict = "none"]

\* the catch block of a cycle
cycleCaught(o, message) ==
  nextCycle([o EXCEPT !.lastError = message,
                      !.warnings = Append(@, [cycle |-> o.cycle, reason |-> message]),
                      !.failed = Append(@, [cycle |-> o.cycle, reason |-> message])])

\* a repair call is sent
repair(o, pc) ==
  [o EXCEPT !.pc = pc, !.repairCalls = Append(@, o.cycle)]

\* a draft that passed validateOptimizationDraft: the generator is called
generate(o) == [o EXCEPT !.pc = "generate", !.schemaValid = TRUE]

\* getOptimizations is called
OptimizerStarts(configured) ==
  /\ optimizer.pc = "none"
  /\ optimizer' =
       IF ~configured
       THEN [optimizer EXCEPT !.pc = "returned",
              !.result = [present |-> TRUE, fallback |-> TRUE,
                          optimizedContract |-> "orig",
                          totalEstimatedSaving |-> <<"Unavailable (no AI provider key configured)">>,
                          meta |-> [provider |-> "none", schemaRepairAttempts |-> 0,
                                    warnings |-> <<[cycle |-> 0, reason |-> "No AI provider configured."]>>]]]
       ELSE nextCycle(optimizer)
  /\ UNCHANGED <<ovars, wvars, fvars, hvars, cvars, pvars, avars, lvars, rvars>>

ErrAllProvidersFailed == "All providers/models failed."
ErrNotJson == "Response does not contain a JSON object."
ErrSchemaAfterRepair == "Schema validation failed after repair"
ErrGeneratedInvalid == "Generated optimized contract is empty or invalid."

\* the optimizer call settles: it raised, or its text does not parse, or the
\* draft fails the schema, or the draft is valid
DraftSettles(outcome) ==
  /\ optimizer.pc = "draft"
  /\ optimizer' =
       CASE outcome = "raised" -> cycleCaught(optimizer, ErrAllProvidersFailed)
         [] outcome = "parseFail" -> repair(optimizer, "repairParse")
         [] outcome = "schemaFail" -> repair(optimizer, "repairSchema")
         [] OTHER -> generate(optimizer)
  /\ UNCHANGED <<ovars, wvars, fvars, hvars, cvars, pvars, avars, lvars, rvars>>

\* the repair call made after a parse failure settles
ParseRepairSettles(outcome) ==
  /\ optimizer.pc = "repairParse"
  /\ LET counted == [optimizer EXCEPT !.schemaRepairAttempts = @ + 1]
     IN optimizer' =
          CASE outcome = "raised" -> cycleCaught(optimizer, ErrAllProvidersFailed)
            [] outcome = "parseFail" -> cycleCaught(counted, ErrNotJson)
            [] outcome = "schemaFail" -> repair(counted, "repairSchema")
            [] OTHER -> generate(counted)
  /\ UNCHANGED <<ovars, wvars, fvars, hvars, cvars, pvars, avars, lvars, rvars>>

\* the repair call made after a schema failure settles
SchemaRepairSettles(outcome) ==
  /\ optimizer.pc = "repairSchema"
  /\ LET counted == [optimizer EXCEPT !.schemaRepairAttempts = @ + 1]
     IN optimizer' =
          CASE outcome = "raised" -> cycleCaught(optimizer, ErrAllProvidersFailed)
            [] outcome = "parseFail" -> cycleCaught(counted, ErrNotJson)
            [] outcome = "schemaFail" ->
                 nextCycle([counted EXCEPT !.lastError = ErrSchemaAfterRepair,
                              !.failed = Append(@, [cycle |-> optimizer.cycle,
                                                    reason |-> ErrSchemaAfterRepair])])
            [] OTHER -> generate(counted)
  /\ UNCHANGED <<ovars, wvars, fvars, hvars, cvars, pvars, avars, lvars, rvars>>

ErrAntiPatterns == "Verifier rejects candidate: Compilation anti-patterns detected"
ErrVerifierFailed == "Verifier rejects candidate: Verifier failed"
ErrVerifierSummary == "Verifier rejects candidate: summary of the verifier"

\* the cycle ends on a verifier result that is not approved
verifierRejects(o, message) ==
  nextCycle([o EXCEPT !.lastError = message,
                      !.warnings = Append(@, [cycle |-> o.cycle, reason |-> message]),
                      !.failed = Append(@, [cycle |-> o.cycle, reason |-> message])])

\* the generator call settles: it raised, or its code fails the sanity test,
\* or it is code that runStaticAnalysis finds valid or not
GeneratorSettles(outcome, code, staticValid) ==
  /\ optimizer.pc = "generate"
  /\ optimizer' =
       CASE outcome = "raised" -> cycleCaught(optimizer, ErrAllProvidersFailed)
         [] outcome = "invalid" -> cycleCaught(optimizer, ErrGeneratedInvalid)
         [] OTHER ->
              LET o == [optimizer EXCEPT !.sane = TRUE, !.staticValid = staticValid,
                                         !.generated = code]
              IN IF ~staticValid THEN verifierRejects(o, ErrAntiPatterns)
                 ELSE [o EXCEPT !.pc = "verify",
                                !.verifierCalls = Append(@, optimizer.cycle)]
  /\ UNCHANGED <<ovars, wvars, fvars, hvars, cvars, pvars, avars, lvars, rvars>>

\* variant: only an explicit rejection counts as not approved
approvedUnlessRejected(outcome) == outcome # "rejected"

\* verifyCandidate: the answer of the AI verifier; a call that raised, a text
\* that does not parse and an approved field that is no boolean give false
approved(outcome) == outcome = "approved"

\* the verifier call settles
VerifierSettles(outcome) ==
  /\ optimizer.pc = "verify"
  /\ LET o == [optimizer EXCEPT !.verdict = outcome]
     IN optimizer' =
          IF ~approved(outcome)
          THEN verifierRejects(o, IF outcome = "raised" THEN ErrVerifierFailed
                                  ELSE ErrVerifierSummary)
          ELSE [o EXCEPT !.pc = "returned",
                  !.result = [present |-> TRUE, fallback |-> FALSE,
                              optimizedContract |-> o.generated,
                              totalEstimatedSaving |-> <<"draft">>,
                              meta |-> [provider |-> "gemini",
                                        schemaRepairAttempts |-> o.schemaRepairAttempts,
                                        warnings |-> o.warnings]]]
  /\ UNCHANGED <<ovars, wvars, fvars, hvars, cvars, pvars, avars, lvars, rvars>>

OptimizerNext ==
  \/ \E configured \in BOOLEAN : OptimizerStarts(configured)
  \/ \E o \in {"raised", "parseFail", "schemaFail", "valid"} : DraftSettles(o)
  \/ \E o \in {"raised", "parseFail", "schemaFail", "valid"} : ParseRepairSettles(o)
  \/ \E o \in {"raised", "parseFail", "schemaFail", "valid"} : SchemaRepairSettles(o)
  \/ \E o \in {"raised", "invalid", "code"}, c \in Codes, ok \in BOOLEAN :
        GeneratorSettles(o, c, ok)
  \/ \E o \in {"raised", "malformed", "rejected", "approved"} : VerifierSettles(o)

\* ------------------------------------------------------------ acceptance
\* AnalysisService.generateAcceptedOptimization, one call followed through
\* its attempts, with the responses of the optimizer as they are

OriginalCode == <<"A">>

\* the optimizedContract of an optimizer response: missing, the original, the
\* original with a trailing blank, two candidates
OptimizedContracts == {<<>>, <<"A">>, <<"A", " ">>, <<"B">>, <<"C">>}

\* the responses of getOptimizations: a candidate the verifier approved, or
\* the fallback, which carries the original source and DEFAULT_VERIFIER
AIResults ==
  {r \in [optimizedContract : OptimizedContracts, totalEstimatedSaving : {"draft"},
          meta : [warnings : {<<>>, <<"Cycle 1 failed">>},
                  verifier : [approved : BOOLEAN]]] :
     /\ ~r.meta.verifier.approved => r.optimizedContract = OriginalCode
     /\ r.optimizedContract = <<>> => ~r.meta.verifier.approved}

WarnFinalAcceptance == "Final acceptance failed after n attempts."
SavingRejected == "Rejected by acceptance policy after n attempts."

NoAcceptance ==
  [pc |-> "none", attempts |-> 0, aiResult |-> <<>>, candidateCode |-> <<>>,
   retryResult |-> <<>>, measured |-> <<>>, correctiveCalls |-> 0,
   returned |-> <<>>]

AcceptanceInit == acceptance = NoAcceptance

\* the return statement after the loop
exhausted(a) ==
  [a EXCEPT !.pc = "returned",
     !.returned =
        [aiResult |-> [a.aiResult EXCEPT
                         !.optimizedContract = OriginalCode,
                         !.totalEstimatedSaving = SavingRejected,
                         !.meta = [@ EXCEPT !.warnings = Append(@, WarnFinalAcceptance)]],
         optimizedDynamicProfile |-> NoProfile,
         validation |-> NotValidated(ReasonNoCandidate),
         attempts |-> a.attempts]]

\* the for statement's next iteration
nextAttempt(a) ==
  IF a.attempts >= MaxAcceptanceAttempts THEN exhausted(a)
  ELSE [a EXCEPT !.pc = "profiling", !.attempts = @ + 1]

\* generateAcceptedOptimization is called and calls the optimizer
AcceptanceStarts ==
  /\ acceptance.pc = "none"
  /\ acceptance' = [acceptance EXCEPT !.pc = "optimizing"]
  /\ UNCHANGED <<ovars, wvars, fvars, hvars, cvars, pvars, avars, gvars, rvars>>

\* the optimizer returns
OptimizationReturns(aiResult) ==
  /\ acceptance.pc = "optimizing"
  /\ LET trimmed == Trim(aiResult.optimizedContract)
         candidateCode == IF trimmed = <<>> THEN OriginalCode ELSE trimmed
         a == [acceptance EXCEPT !.aiResult = aiResult, !.candidateCode = candidateCode]
     IN acceptance' =
          IF candidateCode = <<>> \/ candidateCode = OriginalCode
          THEN [a EXCEPT !.pc = "returned",
                  !.returned = [aiResult |-> aiResult,
                                optimizedDynamicProfile |-> NoProfile,
                                validation |-> NotValidated(ReasonUnchanged),
                                attempts |-> 1]]
          ELSE nextAttempt(a)
  /\ UNCHANGED <<ovars, wvars, fvars, hvars, cvars, pvars, avars, gvars, rvars>>

\* the worker returns the candidate's profile
CandidateProfiled(measured) ==
  /\ acceptance.pc = "profiling"
  /\ LET optimizedDynamicProfile == workerResult(acceptance.candidateCode, measured)
         checked == validateOptimizedCandidate(BaselineProfile, optimizedDynamicProfile)
         a == [acceptance EXCEPT !.measured = Append(@, checked.reason)]
     IN acceptance' =
          IF checked.accepted
          THEN [a EXCEPT !.pc = "returned",
                  !.returned = [aiResult |-> a.aiResult,
                                optimizedDynamicProfile |-> optimizedDynamicProfile,
                                validation |-> checked,
                                attempts |-> a.attempts]]
          ELSE nextAttempt(a)
  /\ UNCHANGED <<ovars, wvars, fvars, hvars, cvars, pvars, avars, gvars, rvars>>

\* profiling the candidate raises, with or without a compilation error that
\* extractCompilationError knows
CandidateProfileRaises(hint) ==
  /\ acceptance.pc = "profiling"
  /\ LET a == [acceptance EXCEPT !.measured = Append(@, "raised")]
     IN acceptance' =
          IF hint THEN [a EXCEPT !.pc = "correcting", !.correctiveCalls = @ + 1]
          ELSE nextAttempt(a)
  /\ UNCHANGED <<ovars, wvars, fvars, hvars, cvars, pvars, avars, gvars, rvars>>

\* the corrective optimizer call returns
CorrectionReturns(retryResult) ==
  /\ acceptance.pc = "correcting"
  /\ acceptance' =
       IF retryResult.optimizedContract # <<>>
            /\ retryResult.optimizedContract # acceptance.candidateCode
       THEN [acceptance EXCEPT !.pc = "retryProfiling", !.retryResult = retryResult]
       ELSE nextAttempt(acceptance)
  /\ UNCHANGED <<ovars, wvars, fvars, hvars, cvars, pvars, avars, gvars, rvars>>

\* the worker returns the corrected candidate's profile
RetryProfiled(measured) ==
  /\ acceptance.pc = "retryProfiling"
  /\ measured = BaselineProfile <=> acceptance.retryResult.optimizedContract = OriginalCode
  /\ LET retryProfile == workerResult(acceptance.retryResult.optimizedContract, measured)
         retryValidation == validateOptimizedCandidate(BaselineProfile, retryProfile)
     IN acceptance' =
          IF retryValidation.accepted
          THEN [acceptance EXCEPT !.pc = "returned",
                  !.returned = [aiResult |-> acceptance.retryResult,
                                optimizedDynamicProfile |-> retryProfile,
                                validation |-> retryValidation,
                                attempts |-> acceptance.attempts]]
          ELSE nextAttempt(acceptance)
  /\ UNCHANGED <<ovars, wvars, fvars, hvars, cvars, pvars, avars, gvars, rvars>>

\* profiling the corrected candidate raises
CorrectedProfileRaises ==
  /\ acceptance.pc = "retryProfiling"
  /\ acceptance' = nextAttempt(acceptance)
  /\ UNCHANGED <<ovars, wvars, fvars, hvars, cvars, pvars, avars, gvars, rvars>>

AcceptanceNext ==
  \/ AcceptanceStarts
  \/ \E r \in AIResults : OptimizationReturns(r)
  \/ \E p \in CandidateProfiles : CandidateProfiled(p)
  \/ \E hint \in BOOLEAN : CandidateProfileRaises(hint)
  \/ \E r \in AIResults : CorrectionReturns(r)
  \/ \E p \in CandidateProfiles \cup {BaselineProfile} : RetryProfiled(p)
  \/ CorrectedProfileRaises

\* ------------------------------------------------------------ subprocess
\* WorkerAnalysisService.execHardhat: the promise, the spawned child, the
\* abort listener and the timer it sets

ChildIds == 1..MaxChildren

\* promise: none (not called), pending, resolved, or rejected with an error;
\* process: none, running, exited; killed is the killed property of the
\* ChildProcess object; stops tells what the process does with SIGTERM;
\* signals are the signals delivered to the process
NoRunner ==
  [promise |-> "none", settled |-> FALSE, process |-> "none", killed |-> FALSE,
   stops |-> TRUE, signals |-> <<>>, timer |-> "none", aborted |-> FALSE,
   listening |-> FALSE]

RunnerInit == runner = [c \in ChildIds |-> NoRunner]

\* ChildProcess.kill: the signal is delivered to a process that has not
\* exited, and the killed property is set when the delivery succeeded
kill(r, sig) ==
  IF r.process # "running" THEN r
  ELSE [r EXCEPT !.signals = Append(@, sig), !.killed = TRUE]

\* the abort listener of execHardhat
execOnAbort(r) ==
  IF r.settled THEN r
  ELSE [kill([r EXCEPT !.settled = TRUE], "SIGTERM") EXCEPT
          !.timer = "armed", !.promise = "AbortError"]

\* execHardhat is called: the child is spawned; with a signal that is already
\* aborted the listener runs at once
execHardhat(c, stops) ==
  /\ runner[c].promise = "none"
  /\ LET r == [runner[c] EXCEPT !.promise = "pending", !.process = "running",
                                !.stops = stops]
     IN runner' = [runner EXCEPT ![c] =
          IF r.aborted THEN execOnAbort(r) ELSE [r EXCEPT !.listening = TRUE]]
  /\ UNCHANGED <<ovars, wvars, fvars, hvars, cvars, pvars, avars, gvars, lvars>>

\* the AbortController of the job aborts the signal
SignalAborts(c) ==
  /\ ~runner[c].aborted
  /\ LET r == [runner[c] EXCEPT !.aborted = TRUE]
     IN runner' = [runner EXCEPT ![c] =
          IF r.listening THEN execOnAbort([r EXCEPT !.listening = FALSE]) ELSE r]
  /\ UNCHANGED <<ovars, wvars, fvars, hvars, cvars, pvars, avars, gvars, lvars>>

\* the callback of the 1500 ms timer
KillTimerFires(c) ==
  /\ runner[c].timer = "armed"
  /\ LET r == [runner[c] EXCEPT !.timer = "fired"]
     IN runner' = [runner EXCEPT ![c] = IF ~r.killed THEN kill(r, "SIGKILL") ELSE r]
  /\ UNCHANGED <<ovars, wvars, fvars, hvars, cvars, pvars, avars, gvars, lvars>>

\* the close handler of execHardhat
onClose(r, ok) ==
  IF r.settled THEN r
  ELSE [r EXCEPT !.settled = TRUE, !.listening = FALSE,
                 !.promise = IF ok THEN "resolved" ELSE "Command failed"]

\* the process ends by itself, with exit code 0 or not
ProcessEnds(c, ok) ==
  /\ runner[c].process = "running"
  /\ runner' = [runner EXCEPT ![c] = onClose([@ EXCEPT !.process = "exited"], ok)]
  /\ UNCHANGED <<ovars, wvars, fvars, hvars, cvars, pvars, avars, gvars, lvars>>

\* a delivered signal ends the process: SIGKILL always, SIGTERM unless the
\* process ignores it
lethal(r) ==
  \E i \in DOMAIN r.signals :
     r.signals[i] = "SIGKILL" \/ (r.signals[i] = "SIGTERM" /\ r.stops)

ProcessDies(c) ==
  /\ runner[c].process = "running"
  /\ lethal(runner[c])
  /\ runner' = [runner EXCEPT ![c] = onClose([@ EXCEPT !.process = "exited"], FALSE)]
  /\ UNCHANGED <<ovars, wvars, fvars, hvars, cvars, pvars, avars, gvars, lvars>>

RunnerNext ==
  \/ \E c \in ChildIds, stops \in BOOLEAN : execHardhat(c, stops)
  \/ \E c \in ChildIds : SignalAborts(c)
  \/ \E c \in ChildIds : KillTimerFires(c)
  \/ \E c \in ChildIds, ok \in BOOLEAN : ProcessEnds(c, ok)
  \/ \E c \in ChildIds : ProcessDies(c)

\* the state after construction, without and with an AI provider configured
\* the services modelled on their own, before any call
ExtraInit == ClientInit /\ NoProofState /\ FallbackInit /\ OptimizerInit
             /\ AcceptanceInit /\ RunnerInit

Init == OrchInit(FALSE) /\ WorkerInit /\ ValidationIdle /\ ProfilerInit /\ ExtraInit
PipelineInit == OrchInit(TRUE) /\ WorkerInit /\ ValidationIdle /\ ProfilerInit /\ ExtraInit
PolicyInit == OrchInit(FALSE) /\ WorkerInit /\ ValidationInit /\ ProfilerInit /\ ExtraInit
ProofJobInit ==
  /\ OrchInit(FALSE) /\ WorkerInit /\ ValidationIdle /\ ProfilerInit
  /\ ClientInit /\ ProofInit /\ FallbackInit /\ OptimizerInit /\ AcceptanceInit
  /\ RunnerInit

Spec == Init /\ [][RegistryNext]_vars
PipelineSpec == PipelineInit /\ [][PipelineNext]_vars
StreamSpec == Init /\ [][StreamNext]_vars
SubscriberSpec == Init /\ [][SubscriberNext]_vars
PollSpec == Init /\ [][PollNext]_vars
ValidationSpec == PolicyInit /\ [][Validate]_vars
WorkerSpec == Init /\ [][WorkerNext]_vars
ProfilerSpec == Init /\ [][ProfilerNext]_vars
ClientSpec == Init /\ [][ClientNext]_vars
ProofSpec == ProofJobInit /\ [][ProofNext]_vars
FallbackSpec == Init /\ [][FallbackNext]_vars
OptimizerSpec == Init /\ [][OptimizerNext]_vars
AcceptanceSpec == Init /\ [][AcceptanceNext]_vars
RunnerSpec == Init /\ [][RunnerNext]_vars
\* timers fire, and a process that was delivered a signal it does not ignore
\* ends
RunnerFairSpec ==
  RunnerSpec /\ \A c \in ChildIds : WF_vars(KillTimerFires(c)) /\ WF_vars(ProcessDies(c))
\* timers fire and every fetch settles (undici gives up on a connection, on
\* the headers and on the body after its default timeouts)
ClientFairSpec == ClientSpec /\ \A c \in CallIds : WF_vars(ClientStep(c))

\* the continuations of job j's awaited calls: every call in flight
\* eventually returns or raises
Resume(j) ==
  \/ \E m \in WorkerErrors : BaselineRaises(j, m)
  \/ BaselineReturns(j)
  \/ \E pc \in {"draft", "repairParse", "repairSchema", "generate"} : CycleThrows(j, pc)
  \/ \E o \in Outcomes : DraftReturns(j, o)
  \/ \E o \in Outcomes : RepairParseReturns(j, o)
  \/ \E o \in Outcomes : RepairSchemaReturns(j, o)
  \/ \E c \in Codes, ok \in BOOLEAN : GenerateReturns(j, c, ok)
  \/ \E a \in BOOLEAN : VerifyReturns(j, a)
  \/ RetryProfileRaises(j)
  \/ \E p \in CandidateProfiles : RetryProfileReturns(j, p)
  \/ \E h \in BOOLEAN : ProfileRaises(j, h)
  \/ \E p \in CandidateProfiles : ProfileReturns(j, p)

\* job j has a call in flight: the enabling condition of Resume(j)
Pending(j) ==
  /\ j \in DOMAIN jobs
  /\ task[j].pc \in {"baseline", "draft", "repairParse", "repairSchema",
                     "generate", "verify", "profile", "retryProfile"}

\* weak fairness of Resume(j), WF_vars(Resume(j)), with ENABLED <<Resume(j)>>_vars
\* written as the state predicate Pending(j)
ResumeFair(j) == []<>(~Pending(j)) \/ []<><<Resume(j)>>_vars

PipelineFairSpec == PipelineSpec /\ \A j \in JobIds : ResumeFair(j)

\* ------------------------------------------------------------------ claims
Phases(job) == [i \in 1..Len(job.events) |-> job.events[i].phase]

LegalTransition(a, b) ==
  \/ a \in NonTerminal /\ b = a
  \/ <<a, b>> \in {<<"queued", "static_analysis">>,
                   <<"static_analysis", "dynamic_analysis">>,
                   <<"dynamic_analysis", "ai_optimization">>,
                   <<"ai_optimization", "completed">>}
  \/ a \in NonTerminal /\ b \in {"failed", "cancelled"}

C3_CancelLeadsToCancelled ==
  \A j \in JobIds :
    (j \in DOMAIN jobs /\ jobs[j].cancelRequested)
      ~> (j \in DOMAIN jobs /\ jobs[j].status = "cancelled")

C3_Witness ==
  \E j \in DOMAIN jobs :
    /\ jobs[j].status = "cancelled"
    /\ \E i \in 1..Len(jobs[j].events) :
         /\ jobs[j].events[i].message = "Cancellation requested."
         /\ jobs[j].events[i].phase = "ai_optimization"
         /\ jobs[j].events[i + 1].phase = "cancelled"

\* C4: a job with cancelRequested set is never failed or completed; once
\* its runJob has ended its status is cancelled and its error is
\* "Analysis cancelled by user.".
C4_CancelRequestedEndsCancelled ==
  \A j \in DOMAIN jobs :
    jobs[j].cancelRequested =>
      /\ jobs[j].status \notin {"failed", "completed"}
      /\ jobs[j].status \in Terminal \/ task[j].pc = "done" =>
           jobs[j].status = "cancelled" /\ jobs[j].error = ErrCancelledByUser

C4_Witness ==
  \E j \in DOMAIN jobs :
    /\ jobs[j].cancelRequested
    /\ jobs[j].status = "cancelled"
    /\ jobs[j].error = ErrCancelledByUser
    /\ task[j].pc = "done"
    /\ \E i \in 1..Len(jobs[j].events) :
         /\ jobs[j].events[i].message = "Cancellation requested."
         /\ jobs[j].events[i].phase = "dynamic_analysis"

\* the jobs a submission of code may be answered with
ReusableJobs(code) ==
  {j \in DOMAIN jobs :
     /\ codeHash(jobs[j].code) = codeHash(code)
     /\ \/ jobs[j].status \in NonTerminal
        \/ jobs[j].status = "completed" /\ now - jobs[j].updatedAt <= DedupeTtl}

\* C9: a submission is answered reused=true with the id of the existing job
\* when a job with the same trimmed-source fingerprint is non-terminal or
\* completed within the dedupe TTL, and with a new job id otherwise.
C9_ReuseDecision ==
  [][reply'.op = "create" =>
       IF ReusableJobs(reply'.code) # {}
       THEN reply'.reused /\ reply'.id \in ReusableJobs(reply'.code)
       ELSE /\ ~reply'.reused
            /\ reply'.id \notin DOMAIN jobs
            /\ reply'.id \in DOMAIN jobs'
            /\ jobs'[reply'.id].code = reply'.code]_vars

C9_Witness ==
  /\ reply.op = "create"
  /\ reply.reused
  /\ jobs[reply.id].code # reply.code
  /\ \E j \in DOMAIN jobs :
       j # reply.id /\ codeHash(jobs[j].code) = codeHash(reply.code)

WorkerTerminal == {"completed", "failed", "cancelled"}

WorkerLegalTransition(a, b) ==
  \/ a = b
  \/ a = "queued" /\ b \in {"processing", "cancelled"}
  \/ a = "processing" /\ b \in WorkerTerminal

\* C2: the status of a worker job only moves queued -> processing ->
\* (completed | failed | cancelled) or queued -> cancelled, and never leaves
\* a terminal status, whatever the interleaving of requests, processJob
\* and persistence outcomes.
C2_WorkerLegalTransitions ==
  [][\A j \in WorkerIds :
       j \in DOMAIN wjobs /\ j \in DOMAIN wjobs' =>
         WorkerLegalTransition(wjobs[j].status, wjobs'[j].status)]_vars

\* C5: a worker job whose cancellation has been accepted is never recorded,
\* in memory or in the store, as completed or failed.
C5_CancelledNeverSettlesOtherwise ==
  \A j \in cancelAsked :
    /\ j \in DOMAIN wjobs => wjobs[j].status \notin {"completed", "failed"}
    /\ j \in DOMAIN store => store[j].status \notin {"completed", "failed"}

\* C6: at most one worker job has status processing at any time.
C6_SingleProcessing ==
  Cardinality({j \in DOMAIN wjobs : wjobs[j].status = "processing"}) <= 1

ErrWorkerRestarted == "Worker restarted during processing."

\* C7: once the store is initialized, a job that no processJob of this
\* process is working on and whose stored status is processing is reported
\* as failed with error "Worker restarted during processing.".
C7_RestartFailsProcessing ==
  \A j \in DOMAIN wjobs :
    (initialized /\ wtask[j] = "none" /\ j \in DOMAIN store
       /\ store[j].status = "processing") =>
      wjobs[j].status = "failed" /\ wjobs[j].error = ErrWorkerRestarted

Persisted(job) ==
  [status |-> job.status, attempts |-> job.attempts, retryOf |-> job.retryOf,
   error |-> job.error, result |-> job.result]

\* C8: a job that callers can read and that has a row in the store shows
\* the status, attempts, retryOf, error and result that a reload of its
\* row yields.
C8_MemoryMatchesStore ==
  initialized =>
    \A j \in DOMAIN wjobs \cap DOMAIN store :
      Persisted(wjobs[j]) = Persisted(toJobRecord(store[j]))


Frames(events) ==
  [i \in 1..Len(events) |-> [frame |-> "progress", event |-> events[i]]]

C11_TerminalStatusFrozen ==
  \A j \in DOMAIN jobs : \A i \in DOMAIN jobs[j].events :
     jobs[j].events[i].phase \in Terminal =>
       jobs[j].status = jobs[j].events[i].phase

\* the records a request finds: the ones in memory, and for the ids memory
\* does not hold the rows its loadJobs has read
Found(l) ==
  [i \in DOMAIN wjobs \cup DOMAIN loads[l].rows |->
     IF i \in DOMAIN wjobs THEN wjobs[i] ELSE toJobRecord(loads[l].rows[i])]

\* what a retry of id leaves behind, given the records it found
RetryEffect(before, id) ==
  LET retryId == issued + 1 IN
  /\ store' = store
  /\ \A j \in DOMAIN before : j \in DOMAIN wjobs' /\ wjobs'[j] = before[j]
  /\ IF id \in DOMAIN before /\ before[id].status \in {"failed", "cancelled"}
     THEN /\ DOMAIN wjobs' = DOMAIN before \cup {retryId}
          /\ retryId \notin DOMAIN before
          /\ wjobs'[retryId] =
               [id |-> retryId, sourceCode |-> before[id].sourceCode,
                status |-> "queued", attempts |-> before[id].attempts + 1,
                cancelRequested |-> FALSE, error |-> NoError,
                result |-> NoResult, retryOf |-> id]
     ELSE DOMAIN wjobs' = DOMAIN before

\* C12: a retry of a failed or cancelled worker job creates exactly one new
\* job, queued, with attempts one more than the prior job's and retryOf the
\* prior id, and leaves every record that existed unchanged in memory and in
\* the store; a retry of a job in any other status creates no job and
\* changes no record.
C12_RetryFrame ==
  [][\A id \in WorkerIds :
       /\ Request("retry", id) => RetryEffect(wjobs, id)
       /\ \A l \in DOMAIN loads :
             loads[l].op = "retry" /\ loads[l].id = id /\ LoadReturns(l)
               => RetryEffect(Found(l), id)]_vars

\* (after - before) / before * 100, and 0 when before <= 0
Pct(before, after) ==
  IF ~Less(Num(0), before) THEN Num(0)
  ELSE Frac((after.num * before.den - before.num * after.den) * 100,
            after.den * before.num)

\* C14: the verdict follows this order: a candidate that is not
\* ABI-compatible is rejected with "ABI compatibility check failed.";
\* otherwise one whose average mutable-function gas regressed by more than
\* 10 percent is rejected; otherwise one whose deployment gas regressed by
\* more than 20 percent is rejected; otherwise it is accepted, with reason
\* "Candidate accepted." when deployment or average function gas went down
\* and "Candidate accepted (neutral gas result)." when neither did.  Each
\* percentage is (after - before) / before * 100, and 0 when before <= 0.
C14_DecisionOrder ==
  validation # NoValidation =>
    LET abiOk == isAbiCompatible(baselineIn.abi, optimizedIn.abi)
        deployBefore == Num(baselineIn.gasProfile.deploymentGas)
        deployAfter == Num(optimizedIn.gasProfile.deploymentGas)
        avgBefore == averageFunctionGas(baselineIn.gasProfile.functions)
        avgAfter == averageFunctionGas(optimizedIn.gasProfile.functions)
        fnPct == Pct(avgBefore, avgAfter)
        deployPct == Pct(deployBefore, deployAfter)
        fnOver == Less(Num(10), fnPct)
        deployOver == Less(Num(20), deployPct)
    IN /\ validation.checks.averageMutableFunctionRegressionPct = fnPct
       /\ validation.checks.deploymentGasRegressionPct = deployPct
       /\ ~abiOk => ~validation.accepted /\ validation.reason = ReasonAbi
       /\ abiOk /\ fnOver =>
            ~validation.accepted /\ validation.reason = ReasonFunctionRegression
       /\ abiOk /\ ~fnOver /\ deployOver =>
            ~validation.accepted /\ validation.reason = ReasonDeploymentRegression
       /\ abiOk /\ ~fnOver /\ ~deployOver =>
            /\ validation.accepted
            /\ validation.reason =
                 IF Less(deployAfter, deployBefore) \/ Less(avgAfter, avgBefore)
                 THEN "Candidate accepted."
                 ELSE "Candidate accepted (neutral gas result)."

C14_Witness ==
  /\ validation.reason = ReasonDeploymentRegression
  /\ Less(Num(0), validation.checks.averageMutableFunctionRegressionPct)
  /\ baselineIn.gasProfile.deploymentGas > 0

\* how many function items of the ABI have this name, arity and mutability
EntryCount(abi, entry) ==
  Cardinality({i \in DOMAIN abi :
                 /\ abi[i].type = "function"
                 /\ <<abi[i].name, Len(abi[i].inputs), abi[i].stateMutability>> = entry})

\* C15: a candidate is ABI-compatible exactly when its function entries
\* (name, number of inputs, mutability), counted with their multiplicity, are
\* the baseline's: a candidate that differs only in the data location of
\* parameters is compatible, and a candidate that adds a function or changes
\* the number of inputs of one is rejected, also when the added function
\* overloads an existing name with the same arity and mutability.
C15_AbiCompatibility ==
  validation # NoValidation =>
    (validation.checks.abiCompatible <=>
       \A entry \in functionSignatures(baselineIn.abi) \cup functionSignatures(optimizedIn.abi) :
          EntryCount(baselineIn.abi, entry) = EntryCount(optimizedIn.abi, entry))

\* C13: a result reports the optimization as accepted only if the source it
\* returns as optimized was compiled and gas-profiled by the worker and that
\* profile passed the ABI-compatibility and the two gas-regression checks
\* against the baseline; the result carries an optimized profile exactly
\* when it reports accepted.
C13_AcceptedMeansValidated ==
  \A j \in DOMAIN jobs :
    jobs[j].result # NoResult =>
      LET r == jobs[j].result
          before == r.dynamicProfile
          after == r.optimizedDynamicProfile
      IN /\ r.optimizationValidation.accepted <=> after # NoProfile
         /\ r.optimizationValidation.accepted =>
              /\ after.bytecode = <<"bytecode", r.optimizedContract>>
              /\ isAbiCompatible(before.abi, after.abi)
              /\ ~Less(Num(10), Pct(averageFunctionGas(before.gasProfile.functions),
                                    averageFunctionGas(after.gasProfile.functions)))
              /\ ~Less(Num(20), Pct(Num(before.gasProfile.deploymentGas),
                                    Num(after.gasProfile.deploymentGas)))

C13_Witness ==
  \E j \in DOMAIN jobs :
    /\ jobs[j].status = "completed"
    /\ jobs[j].result.optimizationValidation.accepted
    /\ jobs[j].result.optimizedContract = task[j].gen
    /\ task[j].gen # task[j].candidate

\* C16: the view of a job that getJob and GET /analyze/jobs/:id return never
\* contains the submitted source text, in any status: it has no code field,
\* and the result it carries once the job is completed does not hold the
\* source either.
C16_ViewHidesSource ==
  \A j \in DOMAIN jobs :
    LET view == getJob(jobs, j)
    IN /\ "code" \notin DOMAIN view
       /\ view.result # NoResult => view.result.originalContract # jobs[j].code

\* C17: while getGasProfile polls the worker job for an analysis job, a
\* cancel request on that analysis job is seen between polls: a poll made
\* after the request does not go round the loop again, whatever the worker
\* job's status.
C17_CancelStopsPolling ==
  [][\A j \in JobIds :
       j \in DOMAIN jobs /\ jobs[j].cancelRequested => ~PollPending(j)]_vars

\* cancel requests of id waiting on the write chain
CancelsWaiting(q, id) ==
  Cardinality({i \in DOMAIN q : q[i].cont = "cancel" /\ q[i].job.id = id})

\* the cancelJob call for id ends in this step: its upsert settled, or the
\* write chain it awaits was already rejected
CancelEnds(id) ==
  /\ restarts' = restarts
  /\ \/ CancelsWaiting(writeQueue', id) < CancelsWaiting(writeQueue, id)
     \/ /\ Request("cancel", id)
        /\ writeChain # "resolved"
        /\ id \in DOMAIN wjobs
        /\ wjobs[id].status \notin Terminal

\* C18: a cancel of a worker job that is still queued marks it cancelled in
\* the same step; a job whose cancellation was accepted and that is not
\* processing is never moved to processing afterwards and no subprocess is
\* started for it; and when a cancel of a processing job ends, that job's
\* abort signal has fired.
C18_CancelQueuedAndProcessing ==
  [][/\ \A id \in WorkerIds :
          /\ Request("cancel", id) /\ id \in DOMAIN wjobs /\ wjobs[id].status = "queued"
               => wjobs'[id].status = "cancelled"
          /\ \A l \in DOMAIN loads :
               /\ loads[l].op = "cancel" /\ loads[l].id = id /\ LoadReturns(l)
               /\ id \in DOMAIN Found(l) /\ Found(l)[id].status = "queued"
               => wjobs'[id].status = "cancelled"
     /\ \A id \in cancelAsked :
          id \in DOMAIN wjobs /\ id \in DOMAIN wjobs' /\ wjobs[id].status # "processing"
            => /\ wjobs'[id].status # "processing"
               /\ wtask[id] # "running" => wtask'[id] # "running"
     /\ \A id \in WorkerIds :
          /\ CancelEnds(id)
          /\ id \in DOMAIN wjobs /\ wjobs[id].status = "processing" /\ id \in controllers
          => id \in aborted']_vars

\* C19: whatever the other subscribers of the job do (go away, throw from
\* their handler), a subscriber that is attached has received every event of
\* the job, and a subscriber's failure never becomes the job's failure.
C19_SubscriberIsolation ==
  /\ \A s \in StreamIds :
       streams[s].raises = {} /\ streams[s].state \in {"live", "ended"} =>
         LET all == Frames(jobs[streams[s].job].events)
             out == streams[s].out
         IN IF streams[s].state = "live" THEN out = all
            ELSE SubSeq(out, 1, Len(out) - 1) = all
  /\ \A j \in DOMAIN jobs : jobs[j].error # ErrSubscriber

\* C20: once an aborted gas-profiling call of the worker has settled, neither
\* the temporary source file nor the artifact folder of that job exists,
\* whether or not the child process was still running when the cleanup ran.
C20_AbortLeavesNoFiles ==
  \A id \in ProfileIds :
    profiling[id] = Step("settled", "aborted")
      => id \notin sourceFiles /\ id \notin artifactFolders

\* what a cancel of id leaves behind in the worker, given the records it found
CancelNoEffect(before, id) ==
  id \in DOMAIN before /\ before[id].status \in Terminal
    => /\ store' = store
       /\ writeQueue' = writeQueue
       /\ aborted' = aborted
       /\ DOMAIN wjobs' = DOMAIN before
       /\ \A j \in DOMAIN before : wjobs'[j] = before[j]

\* the orchestrator's half of C26
OrchestratorCancelNoEffect ==
  \A id \in JobIds :
    id \in DOMAIN jobs /\ jobs[id].status \in Terminal /\ cancelJob(id)
      => /\ jobs' = jobs
         /\ streams' = streams
         /\ reply' = [op |-> "cancel", id |-> id, status |-> jobs[id].status]

\* the worker's half of C26
WorkerCancelNoEffect ==
  \A id \in WorkerIds :
    /\ Request("cancel", id) => CancelNoEffect(wjobs, id)
    /\ \A l \in DOMAIN loads :
          loads[l].op = "cancel" /\ loads[l].id = id /\ LoadReturns(l)
            => CancelNoEffect(Found(l), id)

\* C26: a cancel of a job that is already completed, failed or cancelled, in
\* the orchestrator and in the worker, changes no field of any job, emits no
\* event, writes no row and answers with the existing record, however often
\* it is repeated.
C26_CancelTerminalNoEffect ==
  [][OrchestratorCancelNoEffect /\ WorkerCancelNoEffect]_vars

\* what a settled call of the worker client says about the worker's job
ClientSettledRight(c) ==
  LET call == client[c] IN
  /\ call.pc = "returned"
       => /\ remote[c].status = "completed"
          /\ call.result # NoResult
          /\ call.result = remote[c].result
  /\ call.pc = "raised"
       => /\ call.result = NoResult
          /\ call.error \in {ErrWorkerFailed, ErrWorkerAnalysisFailed}
               => remote[c].status = "failed"
          /\ call.error \in {ErrWorkerCancelled, ErrWorkerAnalysisCancelled}
               => remote[c].status = "cancelled"
          /\ call.error = ErrNotFound => remote[c].status = "missing"
          /\ call.error = ErrWorkerTimeout => call.elapsed >= MaxPolls

\* C25: a call of the worker client always ends: it returns the payload of a
\* completed worker job, raises the worker's error for a failed or cancelled
\* one, raises when the job is not found and raises the timeout message when
\* the job stays unfinished past the timeout; it never returns a result for a
\* job that is not completed.
C25_ClientTerminates ==
  /\ \A c \in CallIds : [](ClientSettledRight(c))
  /\ \A c \in CallIds :
       (client[c].pc = "creating") ~> (client[c].pc \in {"returned", "raised"})

C25_Witness ==
  \E c \in CallIds :
    /\ client[c].pc = "raised" /\ client[c].error = ErrWorkerTimeout
    /\ remote[c].status = "processing"

\* the job may be given a proof
ProofEligible ==
  /\ proofJob.status = "completed"
  /\ proofJob.result # NoResult
  /\ proofJob.result.optimizationValidation.accepted
  /\ proofJob.result.optimizedDynamicProfile # NoProfile

\* C23: a proof payload is built only for a job that is completed, whose
\* optimization was accepted and whose optimized profile is present; for any
\* other job both endpoints answer 400 and nothing is sent to the registry;
\* the job is left as it was.
C23_ProofOnlyForAccepted ==
  /\ [](\A i \in DOMAIN proofReply :
          /\ proofReply[i].status = 200 => ProofEligible
          /\ ~ProofEligible => proofReply[i].status = 400 /\ submitted = <<>>)
  /\ [][proofJob' = proofJob]_vars

C23_Witness ==
  /\ proofJob.status = "completed"
  /\ \E i \in DOMAIN proofReply :
       proofReply[i].status = 400 /\ proofReply[i].error = ErrNotAccepted
  /\ submitted = <<>>

\* the savings of a payload, in basis points, are the rounded share of the
\* original gas that was saved
SavingsRight(payload) ==
  LET og == payload.originalGas
      pg == payload.optimizedGas
      b == payload.savingsPercentBps
  IN /\ b \in 0..10000
     /\ ~BigLess(Uint32Max, og) /\ ~BigLess(Uint32Max, pg)
     /\ og = Big(0) \/ BigLess(og, pg) => b = 0
     /\ og # Big(0) /\ ~BigLess(og, pg) =>
          LET n == BigAdd(BigScale(BigSub(og, pg), 20000), og)
          IN /\ ~BigLess(n, BigScale(og, 2 * b))
             /\ BigLess(n, BigScale(og, 2 * b + 2))

\* C24: whatever the gas values, the savings of a payload lie in 0..10000
\* and equal round((originalGas - optimizedGas) / originalGas * 10000) held
\* to that range, 0 when originalGas is 0, with both gas amounts held to
\* unsigned 32 bits; averages 100000 and 80000 give 2000.
C24_SavingsInRange ==
  \A i \in DOMAIN proofReply :
    proofReply[i].status = 200 => SavingsRight(proofReply[i].payload)

C24_Witness ==
  \E i \in DOMAIN proofReply :
    /\ proofReply[i].status = 200
    /\ proofReply[i].payload.originalGas = Big(100000)
    /\ proofReply[i].payload.optimizedGas = Big(80000)
    /\ proofReply[i].payload.savingsPercentBps = 2000

\* C27: in callWithFallback an attempt that fails with an error that is not
\* retriable is never followed by another attempt on the same model; an
\* attempt on the same model follows only a retriable error and a backoff,
\* at most AI_PROVIDER_RETRIES times; when every provider and model is used
\* up the call raises with every attempt in its list of failures.
C27_FallbackPlan ==
  LET a == fallback.attempts IN
  /\ \A i \in 1..(Len(a) - 1) :
       a[i + 1].provider = a[i].provider /\ a[i + 1].model = a[i].model
         => a[i].outcome = "retriable" /\ a[i + 1].slept
  /\ \A i \in DOMAIN a : a[i].retry <= ProviderRetries
  /\ fallback.pc = "raised" => fallback.failures = a

\* C28: within one optimizer cycle at most one repair call is sent to the AI,
\* and the schemaRepairAttempts of a returned response is the number of
\* repair calls made in all cycles.
C28_OneRepairPerCycle ==
  /\ \A c \in 1..MaxOptimizerCycles :
        Cardinality({i \in DOMAIN optimizer.repairCalls : optimizer.repairCalls[i] = c}) <= 1
  /\ optimizer.pc = "returned"
       => optimizer.result.meta.schemaRepairAttempts = Len(optimizer.repairCalls)

\* C29: when every optimizer cycle has failed, getOptimizations returns after
\* at most MAX_OPTIMIZER_CYCLES cycles a fallback whose optimizedContract is
\* the original source, whose totalEstimatedSaving names the last error, and
\* whose warnings are not empty and name the reason of each failed cycle.
C29_FallbackNamesEveryFailure ==
  (optimizer.pc = "returned" /\ optimizer.result.fallback /\ optimizer.cycle > 0)
    => /\ optimizer.cycle <= MaxOptimizerCycles
       /\ Len(optimizer.failed) = optimizer.cycle
       /\ optimizer.result.optimizedContract = "orig"
       /\ optimizer.result.totalEstimatedSaving =
            <<"Unavailable (AI failed: ", optimizer.failed[Len(optimizer.failed)].reason, ")">>
       /\ optimizer.result.meta.warnings # <<>>
       /\ \A i \in DOMAIN optimizer.failed :
            \E j \in DOMAIN optimizer.result.meta.warnings :
               optimizer.result.meta.warnings[j] = optimizer.failed[i]

\* C30: getOptimizations returns a candidate that is no fallback only from a
\* cycle whose draft passed the schema, whose generated code passed the
\* sanity test, whose static check found nothing and whose AI verifier
\* answered approved; a cycle rejected by the static check sent no verifier
\* call; a verifier call that raised or answered malformed is a rejection.
C30_OnlyVerifiedCandidates ==
  /\ (optimizer.pc = "returned" /\ ~optimizer.result.fallback)
       => /\ optimizer.schemaValid /\ optimizer.sane /\ optimizer.staticValid
          /\ optimizer.verdict = "approved"
          /\ optimizer.verifierCalls # <<>>
          /\ optimizer.verifierCalls[Len(optimizer.verifierCalls)] = optimizer.cycle
  /\ \A i \in DOMAIN optimizer.failed :
        optimizer.failed[i].reason = ErrAntiPatterns
          => \A k \in DOMAIN optimizer.verifierCalls :
                optimizer.verifierCalls[k] # optimizer.failed[i].cycle
  /\ optimizer.pc = "verify" => optimizer.staticValid

\* an approved candidate returned in the second cycle, after a cycle that the
\* static check rejected without a verifier call
C30_Witness ==
  /\ optimizer.pc = "returned" /\ ~optimizer.result.fallback
  /\ optimizer.cycle = 2
  /\ optimizer.failed = <<[cycle |-> 1, reason |-> ErrAntiPatterns]>>
  /\ optimizer.verifierCalls = <<2>>
  /\ optimizer.result.optimizedContract # "orig"

\* C21: when no candidate passes acceptance, the unchanged code of the AI
\* included, the analysis result has optimizationValidation.accepted false,
\* no optimized profile, an optimizedContract equal to the original source
\* and a warning in meta.warnings that states the rejection.
C21_RejectionReported ==
  (acceptance.pc = "returned" /\ ~acceptance.returned.validation.accepted)
    => /\ acceptance.returned.optimizedDynamicProfile = NoProfile
       /\ acceptance.returned.aiResult.optimizedContract = OriginalCode
       /\ \E i \in DOMAIN acceptance.returned.aiResult.meta.warnings :
             acceptance.returned.aiResult.meta.warnings[i] = WarnFinalAcceptance

\* C22: when every acceptance attempt finds the candidate incompatible with
\* the ABI, the result has accepted false, the reason "ABI compatibility
\* check failed." and attempts equal to MAX_ACCEPTANCE_ATTEMPTS.
C22_AbiRejectionReason ==
  (/\ acceptance.pc = "returned"
   /\ Len(acceptance.measured) = MaxAcceptanceAttempts
   /\ \A i \in DOMAIN acceptance.measured : acceptance.measured[i] = ReasonAbi)
    => /\ ~acceptance.returned.validation.accepted
       /\ acceptance.returned.validation.reason = ReasonAbi
       /\ acceptance.returned.attempts = MaxAcceptanceAttempts

\* C31: during one analysis the acceptance loop issues at most one AI
\* corrective retry, however many attempts raise, and the number of
\* acceptance attempts never exceeds MAX_ACCEPTANCE_ATTEMPTS.
C31_OneCorrectiveRetry ==
  /\ acceptance.correctiveCalls <= 1
  /\ acceptance.attempts <= MaxAcceptanceAttempts

\* C32: when a subprocess is aborted the runner sends SIGTERM and, if the
\* child has not exited when the 1.5 s timer fires, sends SIGKILL; a child
\* that ignores SIGTERM does not stay running after an abort.
C32_AbortEndsChild ==
  \A c \in ChildIds :
     (runner[c].promise = "AbortError" /\ runner[c].process = "running")
       ~> (runner[c].process = "exited")

\* the task awaits a worker submission or an AI stage
StagePcs ==
  {"baseline", "profile", "retryProfile",
   "draft", "repairParse", "repairSchema", "generate", "verify"}

\* the step starts a worker submission or an AI stage of the job: afterwards
\* the task awaits one that it did not await before (a poll of the submission
\* it awaits already starts nothing)
StartsStage(j) ==
  /\ j \in DOMAIN jobs'
  /\ task'[j].pc \in StagePcs
  /\ [task'[j] EXCEPT !.polls = 0] # [task[j] EXCEPT !.polls = 0]

\* C33: after cancelRequested is set on an analysis job the pipeline starts
\* no new worker submission and no new AI stage for that job; the error the
\* progress callback raises inside an optimizer cycle or an acceptance
\* attempt never lets a later stage start.
C33_NoStageAfterCancel ==
  [][\A j \in DOMAIN jobs : jobs[j].cancelRequested => ~StartsStage(j)]_vars

\* a job cancelled while its second optimizer cycle or a later stage was
\* awaited: the cancellation error was raised inside the optimizer
C33_Witness ==
  \E j \in DOMAIN jobs :
     /\ jobs[j].status = "cancelled"
     /\ task[j].pc = "done"
     /\ task[j].cycle = MaxOptimizerCycles
     /\ task[j].attempts = 0

\* C34: an analysis job ends in status cancelled only if cancelJob was called
\* on it; a pipeline error raised without a cancel request ends the job in
\* failed with the error message as reason, whatever its text.
C34_CancelledOnlyOnRequest ==
  \A j \in DOMAIN jobs :
     /\ jobs[j].status = "cancelled" => jobs[j].cancelRequested
     /\ jobs[j].status = "failed" => jobs[j].error # NoError

\* C35: every progress event recorded on an analysis job carries as phase the
\* status the job has when it is emitted, the timestamps do not decrease
\* along the list, and the list holds at most one event with a terminal
\* phase, which is its last event.
C35_EventList ==
  \A j \in DOMAIN jobs :
     LET events == jobs[j].events
     IN /\ events # <<>>
        /\ events[Len(events)].phase = jobs[j].status
        /\ \A i \in 1..(Len(events) - 1) :
              /\ events[i].timestamp <= events[i + 1].timestamp
              /\ events[i].phase \notin Terminal

\* C36: a worker job ends in status cancelled only if cancel was requested
\* for it; a subprocess failure without a cancel request ends the job in
\* failed, whatever the text of the subprocess error.
C36_WorkerCancelledOnlyOnRequest ==
  \A id \in DOMAIN wjobs :
     wjobs[id].status = "cancelled" => wjobs[id].cancelRequested

\* the step leaves every record it has put into memory written or queued for
\* writing
StillWritten ==
  \A id \in DOMAIN wjobs' :
     (id \notin DOMAIN wjobs \/ wjobs'[id] # wjobs[id])
       => \/ \E i \in DOMAIN writeQueue' : writeQueue'[i].job = wjobs'[id]
          \/ id \in DOMAIN store' /\ store'[id] = toRow(wjobs'[id])

\* the step leaves a completed job completed
StaysCompleted ==
  \A id \in DOMAIN wjobs \cap DOMAIN wjobs' :
     wjobs[id].status = "completed" => wjobs'[id].status = "completed"

\* C37: a failed persistence write does not stop later writes or corrupt the
\* job lifecycle: the later transitions of every job are still written to the
\* store, and a job whose subprocess succeeded is not turned from completed
\* into failed by the write error.
C37_WriteFailureContained ==
  [][writeChain' # "resolved" => StillWritten /\ StaysCompleted]_vars

\* how far a worker job has advanced
Advance(status) ==
  CASE status = "queued" -> 0
    [] status = "processing" -> 1
    [] OTHER -> 2

\* a load that returns into an initialized store sets no record back
LoadKeepsAdvanced ==
  (Len(loads') < Len(loads) /\ initialized)
    => \A id \in DOMAIN wjobs \cap DOMAIN wjobs' :
          Advance(wjobs'[id].status) >= Advance(wjobs[id].status)

\* C38: the persisted jobs are loaded into memory at most once per worker
\* process even when the first requests arrive concurrently, and a load never
\* replaces an in-memory record that has advanced with its older persisted
\* snapshot.
C38_LoadOnce == [][Len(loads') <= 1 /\ LoadKeepsAdvanced]_vars

\* the jobs created for the fingerprint h
JobsOf(h) == {j \in DOMAIN jobs : codeHash(jobs[j].code) = h}

\* C39: at any time at most one analysis job per code fingerprint is not
\* terminal, and the fingerprint map points to the job created last for the
\* fingerprint.
C39_OneLiveJobPerFingerprint ==
  /\ \A j \in DOMAIN jobs : codeHash(jobs[j].code) \in DOMAIN codeHashToJobId
  /\ \A h \in DOMAIN codeHashToJobId :
        /\ Cardinality({j \in JobsOf(h) : jobs[j].status \notin Terminal}) <= 1
        /\ codeHashToJobId[h] \in JobsOf(h)
        /\ \A j \in JobsOf(h) : j <= codeHashToJobId[h]

\* a second job created for the fingerprint of a job that has failed, from a
\* source that differs from the first in its surrounding blanks only
C39_Witness ==
  \E h \in DOMAIN codeHashToJobId :
     /\ Cardinality(JobsOf(h)) = 2
     /\ \E j \in JobsOf(h) : jobs[j].status = "failed" /\ j < codeHashToJobId[h]
     /\ \E j, k \in JobsOf(h) : jobs[j].code # jobs[k].code
     /\ jobs[codeHashToJobId[h]].status \notin Terminal

\* C40: whenever an analysis result has optimizationValidation.accepted true,
\* its optimized source differs from the original source and was approved by
\* the verifier, also when acceptance is reached through the corrective retry
\* whose AI call fell back to the original source.
C40_AcceptedIsVerifiedChange ==
  (acceptance.pc = "returned" /\ acceptance.returned.validation.accepted)
    => /\ acceptance.returned.aiResult.optimizedContract # OriginalCode
       /\ acceptance.returned.aiResult.meta.verifier.approved

====
